---------------------------- MODULE Spec2Model ----------------------------
(***************************************************************************)
(* A model of the search route of meriton-search                           *)
(* (src/app/api/search/route.ts) and of the retry / filter-validation      *)
(* utilities and session check (src/lib/auth.ts, lines 77-109, 172-324).   *)
(*                                                                         *)
(* The request handler is a pipeline of pure steps; each step has its own  *)
(* specification over the shared request state:                            *)
(*   SpecDetect  detectEntityQuery / isRegionalQuery on the query text     *)
(*   SpecViz     generateVisualization on a collected result set           *)
(*   SpecCall    executeToolCall: search string and topK                   *)
(*   SpecFilter  executeToolCall: the metadata filter                      *)
(*   SpecRetry   retryOperation with isRetryableError                      *)
(*   SpecPost    POST for one request: the guards, the external calls, the *)
(*               tool-call loop and the catch block                        *)
(*   SpecPostLive  SpecPost with the scheduling of the handler's own steps *)
(*   SpecValidate   validateMetadataFilter on an assembled filter          *)
(*   SpecNormalize  formatResult and the normalisation of one match        *)
(*   SpecAggregate  aggregateVendorEntities on the collected invoices      *)
(*   SpecSession    concurrent requests through validateSession            *)
(* JavaScript values: a metadata field of a search result holds a string   *)
(* (Undefined when the key is absent) or a number; a JSON value of the     *)
(* request body, of the tool call's arguments or of a filter is a tagged   *)
(* record (Str, Num, Obj, Arr, NullV, UndefinedV).                         *)
(***************************************************************************)
EXTENDS Integers, Sequences, FiniteSets, TLC

VARIABLES
    pc,                 \* position of the handler in the current specification
    query,              \* the request body's query text
    detectedEntityType, \* result of detectEntityQuery(query)
    regional,           \* result of isRegionalQuery(query)
    hits,               \* POST: the raw results the tool calls returned, in order
    sources,            \* POST: allSources, the hits collected from the tool calls
    finalSources,       \* POST: finalSources, the list handed to generateVisualization
    entityType,         \* actualEntityType handed to generateVisualization
    charts,             \* the charts array of generateVisualization before the cap
    visualization,      \* the value generateVisualization returns
    maxResults,         \* the request body's maxResults
    toolName,           \* the tool the router selected
    args,               \* the tool call's parsed arguments
    embedInput,         \* the strings sent to the embedding endpoint
    filter,             \* the filter assembled by executeToolCall
    vectorQueries,      \* the [topK, filter] requests sent to the vector index
    toolError,          \* the error executeToolCall threw, or NoError
    status,             \* the HTTP status POST answered with, 0 while it has not
    session,            \* POST: the session cookie: "none", "invalid" or "valid"
    user,               \* POST: the user validateSession returns for a valid session
    toolCalls,          \* POST: the tool calls the router selected
    callIndex,          \* POST: the position of the for loop in toolCalls
    llmCalls,           \* POST: the chat-completion requests sent so far
    caught,             \* POST: the error the catch block received, if any
    origin,             \* POST: the step that threw it
    toolMessages,       \* POST: toolMessages, one tool message per executed tool call
    transcript,         \* POST: the messages of the summarization request, after the system prompt
    sessionRecord,      \* the session table's record of the token: "expired", "deleted"
    requests,           \* the concurrent requests that carry the token: position, status, error
    opts,               \* retryOperation: the merged options
    thrown,             \* retryOperation: the errors the operation threw, in call order
    attempt,            \* retryOperation: the loop counter
    calls,              \* retryOperation: how often the operation was invoked
    delays,             \* retryOperation: the backoff delays waited so far
    lastError,          \* retryOperation: lastError
    outcome             \* retryOperation: the value returned or the error thrown

detectVars == <<query, detectedEntityType, regional>>
vizVars    == <<hits, sources, finalSources, entityType, charts, visualization>>
toolVars   == <<maxResults, toolName, args, embedInput, filter, vectorQueries, toolError,
               status>>
postVars   == <<session, user, toolCalls, callIndex, llmCalls, caught, origin,
               toolMessages, transcript, sessionRecord, requests>>
retryVars  == <<opts, thrown, attempt, calls, delays, lastError, outcome>>
vars       == <<pc, detectVars, vizVars, toolVars, postVars, retryVars>>

(***************************************************************************)
(* JavaScript values.                                                      *)
(***************************************************************************)
Undefined == "<undefined>"
Null      == "<null>"
NoError   == "<no error>"

\* A string field is falsy when it is absent, null or the empty string.
Truthy(v) == v \notin {Undefined, Null, ""}

(***************************************************************************)
(* Strings.  TLC evaluates Len, \o, Head, Tail and SubSeq on strings.      *)
(***************************************************************************)
CharAt(s, i) == SubSeq(s, i, i)

UpperCase == <<"A","B","C","D","E","F","G","H","I","J","K","L","M",
               "N","O","P","Q","R","S","T","U","V","W","X","Y","Z">>
LowerCase == <<"a","b","c","d","e","f","g","h","i","j","k","l","m",
               "n","o","p","q","r","s","t","u","v","w","x","y","z">>
Digits    == {"0","1","2","3","4","5","6","7","8","9"}

LowerChar(c) ==
    IF \E k \in 1..26 : UpperCase[k] = c
    THEN LowerCase[CHOOSE k \in 1..26 : UpperCase[k] = c]
    ELSE c

RECURSIVE toLowerCase(_)
toLowerCase(s) ==
    IF s = "" THEN "" ELSE LowerChar(Head(s)) \o toLowerCase(Tail(s))

WhiteSpace == {" ", "\t", "\n"}

RECURSIVE trimStart(_)
trimStart(s) ==
    IF s # "" /\ Head(s) \in WhiteSpace THEN trimStart(Tail(s)) ELSE s

RECURSIVE trimEnd(_)
trimEnd(s) ==
    IF s # "" /\ CharAt(s, Len(s)) \in WhiteSpace
    THEN trimEnd(SubSeq(s, 1, Len(s) - 1))
    ELSE s

\* String.prototype.trim
trim(s) == trimEnd(trimStart(s))

\* String.prototype.includes
includes(s, w) ==
    \E i \in 1..(Len(s) - Len(w) + 1) : SubSeq(s, i, i + Len(w) - 1) = w

(***************************************************************************)
(* The regular expressions of detectEntityQuery and isRegionalQuery.       *)
(* \w is [A-Za-z0-9_]; \b holds between a \w and a non-\w character (the   *)
(* ends of the string count as non-\w).                                    *)
(***************************************************************************)
WordChars ==
    {LowerCase[k] : k \in 1..26} \cup {UpperCase[k] : k \in 1..26} \cup Digits \cup {"_"}

IsWordChar(c) == c \in WordChars

\* \w at position i of s; FALSE outside the string
WordCharAt(s, i) == i >= 1 /\ i <= Len(s) /\ IsWordChar(CharAt(s, i))

\* \b before position i of s
Boundary(s, i) == WordCharAt(s, i - 1) # WordCharAt(s, i)

\* the literal w matches at position i
LiteralAt(s, i, w) == i + Len(w) - 1 <= Len(s) /\ SubSeq(s, i, i + Len(w) - 1) = w

\* \b(w)\b matches at position i
WordAt(s, i, w) ==
    /\ Boundary(s, i)
    /\ LiteralAt(s, i, w)
    /\ Boundary(s, i + Len(w))

\* /\b(a1|a2|...)\b/.test(s)
TestWords(s, alts) ==
    \E i \in 1..Len(s) : Boundary(s, i) /\ \E w \in alts : WordAt(s, i, w)

\* /\b(a1|...)\b.*\b(b1|...)\b/.test(s)
TestWordsThen(s, as, bs) ==
    \E i \in 1..Len(s) : Boundary(s, i) /\ \E a \in as :
        /\ WordAt(s, i, a)
        /\ \E j \in (i + Len(a))..Len(s) : Boundary(s, j) /\ \E b \in bs : WordAt(s, j, b)

\* /\b(a1|...)\b.*\b(b1|...)\b.*\b(c1|...)\b/.test(s)
TestWordsThenThen(s, as, bs, cs) ==
    \E i \in 1..Len(s) : Boundary(s, i) /\ \E a \in as :
        /\ WordAt(s, i, a)
        /\ \E j \in (i + Len(a))..Len(s) : Boundary(s, j) /\ \E b \in bs :
            /\ WordAt(s, j, b)
            /\ \E k \in (j + Len(b))..Len(s) : Boundary(s, k) /\ \E c \in cs :
                WordAt(s, k, c)

VendorWords   == {"vendor", "vendors", "supplier", "suppliers", "contractor", "contractors"}
BillingWords  == {"invoice", "invoices", "bill", "bills", "payment", "payments"}
CustomerWords == {"customer", "customers", "client", "clients", "facility", "facilities"}
InvoiceWords  == {"invoice", "invoices"}
EquipmentWords == {"equipment", "unit", "units", "machine", "machines", "system", "systems"}

\* detectEntityQuery: 'vendor' | 'customer' | 'equipment' | null
detectEntityQuery(q) ==
    LET lowerQuery == toLowerCase(q) IN
    IF TestWords(lowerQuery, VendorWords) /\ ~TestWords(lowerQuery, BillingWords)
    THEN "vendor"
    ELSE IF TestWords(lowerQuery, CustomerWords) /\ ~TestWords(lowerQuery, InvoiceWords)
    THEN "customer"
    ELSE IF TestWords(lowerQuery, EquipmentWords) /\ ~TestWords(lowerQuery, InvoiceWords)
    THEN "equipment"
    ELSE Null

StatesRegions == {"state", "states", "region", "regions"}

\* every query taken as regional
isRegionalQueryAlways(q) == TRUE

\* isRegionalQuery: some pattern of regionalPatterns matches the lowered query
isRegionalQuery(q) ==
    \E lowerQuery \in {toLowerCase(q)} :
    \/ TestWords(lowerQuery, {"region", "regions", "regional"})
    \/ TestWords(lowerQuery, {"by state", "by region", "per state", "per region"})
    \/ TestWords(lowerQuery, {"geographic", "geographical", "geography"})
    \/ TestWordsThen(lowerQuery, {"location", "locations", "where"},
                     {"most", "highest", "lowest", "distribution"})
    \/ TestWordsThen(lowerQuery, {"compare", "comparison"}, StatesRegions)
    \/ TestWordsThen(lowerQuery, StatesRegions, {"compare", "comparison"})
    \/ TestWordsThenThen(lowerQuery, {"breakdown", "distribution", "split"},
                         {"by", "per"}, {"state", "region", "location"})
    \/ TestWordsThen(lowerQuery, {"state", "region", "location"},
                     {"breakdown", "distribution", "split"})
    \/ TestWords(lowerQuery, {"northwest", "northeast", "southwest", "southeast",
                              "midwest", "west", "south central", "north central"})
    \/ TestWords(lowerQuery, {"map", "mapping", "mapped"})
    \/ TestWords(lowerQuery, {"by state", "by region"})
    \/ TestWordsThen(lowerQuery, {"across", "throughout"},
                     {"state", "states", "region", "regions", "country"})

(***************************************************************************)
(* generateVisualization (route.ts, lines 76-433).                         *)
(*                                                                         *)
(* A SearchResult is [id, metadata, score]; its metadata holds the fields  *)
(* the accumulators read.  An optional boolean (needs_reorder) is written  *)
(* "true" / "false" so that an absent key can be Undefined.  A chart is    *)
(* [type, title, data]; the axis captions are presentation only.  An       *)
(* accumulator (a Record<string, number>) is the sequence of its           *)
(* [label, value] entries in insertion order, which is the order           *)
(* Object.keys and Object.entries enumerate.                               *)
(***************************************************************************)
NullVisualization == [null |-> TRUE]

Min(a, b) == IF a <= b THEN a ELSE b
Max(a, b) == IF a >= b THEN a ELSE b

\* Array.prototype.slice(0, n)
slice(seq, n) == SubSeq(seq, 1, Min(n, Len(seq)))

HasKey(acc, key) == \E i \in 1..Len(acc) : acc[i].label = key

\* acc[key] = (acc[key] || 0) + n
Bump(acc, key, n) ==
    IF HasKey(acc, key)
    THEN [i \in 1..Len(acc) |->
            IF acc[i].label = key
            THEN [label |-> key, value |-> acc[i].value + n]
            ELSE acc[i]]
    ELSE Append(acc, [label |-> key, value |-> n])

\* x || 'unknown', then skipped when 'unknown'
KnownOrSkip(v) == IF Truthy(v) /\ v # "unknown" THEN v ELSE ""

\* skipped when falsy
TruthyOrSkip(v) == IF Truthy(v) THEN v ELSE ""

\* the forEach of lines 106-194 for one accumulator: keys[i] is the
\* category of the i-th source, or "" when it is skipped; amounts[i] is
\* what it adds
Accumulate(keys, amounts) ==
    LET f[i \in 0..Len(keys)] ==
            IF i = 0 THEN <<>>
            ELSE IF keys[i] = "" THEN f[i - 1]
            ELSE Bump(f[i - 1], keys[i], amounts[i])
    IN f[Len(keys)]

\* the categories of a field read as  x || 'unknown'  and skipped when 'unknown'
KnownKeys(srcs, field) == [i \in 1..Len(srcs) |-> KnownOrSkip(srcs[i].metadata[field])]

\* the categories of a field skipped when falsy
TruthyKeys(srcs, field) == [i \in 1..Len(srcs) |-> TruthyOrSkip(srcs[i].metadata[field])]

\* acc[key] + 1 for every source
Ones(srcs) == [i \in 1..Len(srcs) |-> 1]

recordTypeData(srcs)    == Accumulate(KnownKeys(srcs, "record_type"), Ones(srcs))
regionData(srcs)        == Accumulate(KnownKeys(srcs, "region"), Ones(srcs))
vendorData(srcs)        == Accumulate(TruthyKeys(srcs, "vendor"), Ones(srcs))
paymentStatusData(srcs) == Accumulate(TruthyKeys(srcs, "payment_status"), Ones(srcs))
serviceTypeData(srcs)   == Accumulate(TruthyKeys(srcs, "service_type"), Ones(srcs))
leadSourceData(srcs)    == Accumulate(TruthyKeys(srcs, "lead_source"), Ones(srcs))
stageData(srcs)         == Accumulate(TruthyKeys(srcs, "stage"), Ones(srcs))
channelData(srcs)       == Accumulate(TruthyKeys(srcs, "channel"), Ones(srcs))
manufacturerData(srcs)  == Accumulate(TruthyKeys(srcs, "manufacturer"), Ones(srcs))
warehouseData(srcs)     == Accumulate(TruthyKeys(srcs, "warehouse_location"), Ones(srcs))
conditionData(srcs)     == Accumulate(TruthyKeys(srcs, "condition"), Ones(srcs))
equipmentTypeData(srcs) == Accumulate(TruthyKeys(srcs, "equipment_type"), Ones(srcs))

\* if (date && amount) monthlyData[date.substring(0, 7)] += amount
monthlyData(srcs) ==
    Accumulate([i \in 1..Len(srcs) |->
                    IF Truthy(srcs[i].metadata.date) /\ srcs[i].metadata.amount # 0
                    THEN SubSeq(srcs[i].metadata.date, 1, Min(7, Len(srcs[i].metadata.date)))
                    ELSE ""],
               [i \in 1..Len(srcs) |-> srcs[i].metadata.amount])

\* reorderData starts as { 'Needs Reorder': 0, 'Stock OK': 0 }
reorderData(srcs) ==
    LET n(v) == Cardinality({i \in 1..Len(srcs) : srcs[i].metadata.needs_reorder = v})
    IN <<[label |-> "Needs Reorder", value |-> n("true")],
         [label |-> "Stock OK", value |-> n("false")]>>

hasReorderData(srcs) ==
    \E i \in 1..Len(srcs) : srcs[i].metadata.needs_reorder # Undefined

\* entries.sort(([,a], [,b]) => b - a): a stable sort, largest value first
SortByValueDesc(acc) ==
    LET Insert(sorted, e) ==
            LET k == Cardinality({i \in 1..Len(sorted) : sorted[i].value >= e.value})
            IN SubSeq(sorted, 1, k) \o <<e>> \o SubSeq(sorted, k + 1, Len(sorted))
        f[i \in 0..Len(acc)] == IF i = 0 THEN <<>> ELSE Insert(f[i - 1], acc[i])
    IN f[Len(acc)]

\* a.localeCompare(b) < 0 for the characters of a YYYY-MM label
CharRank == <<"-", "0", "1", "2", "3", "4", "5", "6", "7", "8", "9">>
RankOf(c) == IF \E k \in 1..Len(CharRank) : CharRank[k] = c
             THEN CHOOSE k \in 1..Len(CharRank) : CharRank[k] = c
             ELSE Len(CharRank) + 1

RECURSIVE StrLess(_, _)
StrLess(a, b) ==
    IF b = "" THEN FALSE
    ELSE IF a = "" THEN TRUE
    ELSE IF Head(a) = Head(b) THEN StrLess(Tail(a), Tail(b))
    ELSE RankOf(Head(a)) < RankOf(Head(b))

\* entries.sort(([a], [b]) => a.localeCompare(b)): labels are distinct keys
SortByLabel(acc) ==
    LET Insert(sorted, e) ==
            LET k == Cardinality({i \in 1..Len(sorted) : StrLess(sorted[i].label, e.label)})
            IN SubSeq(sorted, 1, k) \o <<e>> \o SubSeq(sorted, k + 1, Len(sorted))
        f[i \in 0..Len(acc)] == IF i = 0 THEN <<>> ELSE Insert(f[i - 1], acc[i])
    IN f[Len(acc)]

\* label.replace(/_/g, ' ')
RECURSIVE replaceUnderscores(_)
replaceUnderscores(s) ==
    IF s = "" THEN ""
    ELSE (IF Head(s) = "_" THEN " " ELSE Head(s)) \o replaceUnderscores(Tail(s))

Relabel(acc) ==
    [i \in 1..Len(acc) |->
        [label |-> replaceUnderscores(acc[i].label), value |-> acc[i].value]]

DropUnknown(acc) == SelectSeq(acc, LAMBDA e : e.label # "unknown")

Chart(type, title, data) == [type |-> type, title |-> title, data |-> data]

\* sources.slice(0, 10).map(s => ({ label: vendor_name || 'Unknown', value: ... }))
VendorEntityData(srcs, field) ==
    LET top == slice(srcs, 10) IN
    [i \in 1..Len(top) |->
        [label |-> IF Truthy(top[i].metadata.vendor_name)
                   THEN top[i].metadata.vendor_name ELSE "Unknown",
         value |-> top[i].metadata[field]]]

\* charts.push(c) when the condition holds
PushIf(cond, cs, c) == IF cond THEN Append(cs, c) ELSE cs

\* Object.keys(acc).length > 1
Several(acc) == Len(acc) > 1

\* lines 196-415: the charts array before the cap, in push order, given
\* isRegional = isRegionalQuery(query) of line 84
CollectChartsFor(srcs, et, isRegional) ==
    LET regions == regionData(srcs)
        recordTypes == recordTypeData(srcs)
        paymentStatuses == paymentStatusData(srcs)
        serviceTypes == serviceTypeData(srcs)
        months == monthlyData(srcs)
        vendors == vendorData(srcs)
        leadSources == leadSourceData(srcs)
        stages == stageData(srcs)
        channels == channelData(srcs)
        manufacturers == manufacturerData(srcs)
        warehouses == warehouseData(srcs)
        conditions == conditionData(srcs)
        equipmentTypes == equipmentTypeData(srcs)
        reorder == reorderData(srcs)
        c1 == IF et = "vendor"
              THEN <<Chart("bar", "Invoices by Vendor",
                           VendorEntityData(srcs, "invoice_count")),
                     Chart("bar", "Total Amount by Vendor",
                           VendorEntityData(srcs, "total_amount"))>>
              ELSE <<>>
        c2 == PushIf(isRegional /\ Several(regions), c1,
                     Chart("map", "Results by Region", SortByValueDesc(regions)))
        c3 == PushIf(Several(recordTypes), c2,
                     Chart("pie", "Results by Record Type", Relabel(recordTypes)))
        c4 == PushIf(Several(paymentStatuses), c3,
                     Chart("pie", "Payment Status", Relabel(paymentStatuses)))
        c5 == PushIf(Several(serviceTypes), c4,
                     Chart("bar", "By Service Type",
                           Relabel(slice(SortByValueDesc(DropUnknown(serviceTypes)), 8))))
        c6 == PushIf(Len(months) > 2, c5,
                     Chart("line", "Monthly Amounts", SortByLabel(months)))
        c7 == PushIf(et # "vendor" /\ Several(vendors), c6,
                     Chart("bar", "Top Vendors", slice(SortByValueDesc(vendors), 8)))
        c8 == PushIf(Several(leadSources), c7,
                     Chart("pie", "Lead Sources",
                           Relabel(slice(SortByValueDesc(leadSources), 6))))
        c9 == PushIf(Several(stages), c8,
                     Chart("bar", "Deals by Stage", Relabel(stages)))
        c10 == PushIf(Several(channels), c9,
                      Chart("pie", "Marketing Channels", Relabel(channels)))
        c11 == PushIf(Several(manufacturers), c10,
                      Chart("pie", "By Manufacturer",
                            slice(SortByValueDesc(manufacturers), 7)))
        c12 == PushIf(Several(warehouses), c11,
                      Chart("bar", "By Warehouse", warehouses))
        c13 == PushIf(Several(conditions), c12,
                      Chart("pie", "Equipment Condition", conditions))
        c14 == PushIf(Several(equipmentTypes), c13,
                      Chart("bar", "Equipment Types", Relabel(equipmentTypes)))
        c15 == PushIf(hasReorderData(srcs)
                        /\ (reorder[1].value > 0 \/ reorder[2].value > 0),
                      c14, Chart("pie", "Reorder Status", reorder))
    IN c15

CollectCharts(srcs, et, q) == CollectChartsFor(srcs, et, isRegionalQuery(q))

maxCharts == 4

\* priority[type] || 4, with priority = { map: 0, pie: 1, bar: 2, line: 3 }:
\* the 0 of map is falsy, so a map chart ranks 4
PriorityOrFour(type) ==
    LET priority == CASE type = "map" -> 0
                      [] type = "pie" -> 1
                      [] type = "bar" -> 2
                      [] type = "line" -> 3
                      [] OTHER -> 0
    IN IF priority # 0 THEN priority ELSE 4

\* charts.sort((a, b) => rank(a) - rank(b)): a stable sort, lowest rank first
SortByPriority(cs) ==
    LET Insert(sorted, c) ==
            LET k == Cardinality({i \in 1..Len(sorted) :
                                    PriorityOrFour(sorted[i].type) <= PriorityOrFour(c.type)})
            IN SubSeq(sorted, 1, k) \o <<c>> \o SubSeq(sorted, k + 1, Len(sorted))
        f[i \in 0..Len(cs)] == IF i = 0 THEN <<>> ELSE Insert(f[i - 1], cs[i])
    IN f[Len(cs)]

\* the cap without its slice
CapChartsNoSlice(cs) ==
    IF Len(cs) > maxCharts THEN SortByPriority(cs) ELSE cs

\* lines 417-426: the cap
CapCharts(cs) ==
    IF Len(cs) > maxCharts THEN slice(SortByPriority(cs), maxCharts) ELSE cs

\* lines 81 and 417-432: what generateVisualization returns for the
\* charts it collected
VisualizationOf(srcs, cs) ==
    IF Len(srcs) = 0 THEN NullVisualization
    ELSE IF Len(cs) > 0 THEN [charts |-> CapCharts(cs)]
    ELSE NullVisualization

generateVisualization(srcs, et, q) ==
    VisualizationOf(srcs, IF Len(srcs) = 0 THEN <<>> ELSE CollectCharts(srcs, et, q))

(***************************************************************************)
(* Entity aggregation (route.ts, lines 436-512 and 1209-1243).             *)
(***************************************************************************)
\* the fields of a SearchResult's metadata the model carries; the base
\* fields are strings, the optional ones may be absent
EmptyMetadata ==
    [date |-> "", vendor |-> "", amount |-> 0, opco_id |-> "",
     role_required |-> "employee", domain |-> "",
     record_type |-> "", region |-> "",
     payment_status |-> Undefined, service_type |-> Undefined,
     lead_source |-> Undefined, stage |-> Undefined, channel |-> Undefined,
     manufacturer |-> Undefined, warehouse_location |-> Undefined,
     condition |-> Undefined, equipment_type |-> Undefined,
     needs_reorder |-> Undefined,
     vendor_name |-> Undefined, invoice_count |-> 0, total_amount |-> 0,
     paid_count |-> 0, outstanding_count |-> 0, payment_rate |-> Undefined]

Result(id, score, metadata) == [id |-> id, score |-> score, metadata |-> metadata]

\* a raw result of executeToolCall (lines 887-945): the fields of the
\* match's metadata the model carries; a string field is Undefined and a
\* number field 0 when the match does not have it, and defined names the
\* number fields it has
EmptyHit ==
    [id |-> "", score |-> 0, defined |-> {}, opco_id |-> Undefined,
     domain |-> Undefined, record_type |-> Undefined,
     region |-> Undefined, date |-> Undefined, vendor |-> Undefined,
     manufacturer |-> Undefined, payment_status |-> Undefined,
     service_type |-> Undefined, lead_source |-> Undefined, stage |-> Undefined,
     channel |-> Undefined, warehouse_location |-> Undefined,
     needs_reorder |-> Undefined,
     amount |-> 0, total_value |-> 0, deal_value |-> 0, budget |-> 0,
     total_revenue |-> 0, unit_cost |-> 0]

\* x || ''
OrEmpty(v) == IF Truthy(v) THEN v ELSE ""

\* lines 1136-1142: the first truthy amount field
BestAmount(r) ==
    IF r.amount # 0 THEN r.amount
    ELSE IF r.total_value # 0 THEN r.total_value
    ELSE IF r.deal_value # 0 THEN r.deal_value
    ELSE IF r.budget # 0 THEN r.budget
    ELSE IF r.total_revenue # 0 THEN r.total_revenue
    ELSE IF r.unit_cost # 0 THEN r.unit_cost
    ELSE 0

\* lines 1144-1196: the SearchResult POST builds from a raw result
Normalize(r) ==
    Result(r.id, r.score,
           [EmptyMetadata EXCEPT
              !.date = OrEmpty(r.date),
              !.opco_id = OrEmpty(r.opco_id),
              !.vendor = IF Truthy(r.vendor) THEN r.vendor ELSE OrEmpty(r.manufacturer),
              !.amount = BestAmount(r),
              !.region = OrEmpty(r.region),
              !.domain = OrEmpty(r.domain),
              !.record_type = OrEmpty(r.record_type),
              !.payment_status = r.payment_status,
              !.service_type = r.service_type,
              !.stage = r.stage,
              !.manufacturer = r.manufacturer,
              !.warehouse_location = r.warehouse_location,
              !.needs_reorder = r.needs_reorder,
              !.channel = r.channel,
              !.lead_source = r.lead_source])

\* a result that names no vendor left out of the groups
VendorNameOrSkip(s) == IF Truthy(s.metadata.vendor) THEN s.metadata.vendor ELSE ""

\* result.manufacturer || result.vendor || 'Unknown Vendor', where both are
\* s.metadata?.vendor || '' (lines 1226-1227)
VendorNameOf(s) == IF Truthy(s.metadata.vendor) THEN s.metadata.vendor ELSE "Unknown Vendor"

\* name.replace(/\s+/g, '-')
RECURSIVE replaceWhiteSpaceRuns(_)
replaceWhiteSpaceRuns(s) ==
    IF s = "" THEN ""
    ELSE IF Head(s) \in WhiteSpace
    THEN "-" \o replaceWhiteSpaceRuns(trimStart(s))
    ELSE Head(s) \o replaceWhiteSpaceRuns(Tail(s))

\* data.dates.sort().reverse()[0] || '' over the truthy dates of a group
LastDate(dates) ==
    IF dates = {} THEN ""
    ELSE CHOOSE d \in dates : \A e \in dates : e = d \/ StrLess(e, d)

\* the cards left in the order the Map holds them
NoSortByScore(rs) == rs

\* entities.sort((a, b) => (b.score || 0) - (a.score || 0)): a stable sort
SortByScoreDesc(rs) ==
    LET Insert(sorted, r) ==
            LET k == Cardinality({i \in 1..Len(sorted) : sorted[i].score >= r.score})
            IN SubSeq(sorted, 1, k) \o <<r>> \o SubSeq(sorted, k + 1, Len(sorted))
        f[i \in 0..Len(rs)] == IF i = 0 THEN <<>> ELSE Insert(f[i - 1], rs[i])
    IN f[Len(rs)]

\* ((paidCount / invoices.length) * 100).toFixed(0) + '%': the percentage
\* rounded to the nearest integer, a half rounded up
PaymentRate(paidCount, n) == ToString((200 * paidCount + n) \div (2 * n)) \o "%"

\* aggregateVendorEntities on the raw results POST derives from allSources:
\* one card per vendor name, in the order the Map first saw the names, then
\* sorted by invoice count
aggregateVendorEntities(srcs) ==
    LET names == [i \in 1..Len(srcs) |-> VendorNameOf(srcs[i])]
        counts == Accumulate(names, Ones(srcs))
        totals == Accumulate(names, [i \in 1..Len(srcs) |-> srcs[i].metadata.amount])
        datesOf(name) == {srcs[i].metadata.date :
                            i \in {j \in 1..Len(srcs) : names[j] = name}} \ {""}
        paidOf(name) == Cardinality({i \in 1..Len(srcs) :
                            names[i] = name /\ srcs[i].metadata.payment_status = "paid"})
        card(k) ==
            Result("vendor-" \o replaceWhiteSpaceRuns(toLowerCase(counts[k].label)),
                   counts[k].value,
                   [EmptyMetadata EXCEPT
                      !.date = LastDate(datesOf(counts[k].label)),
                      !.vendor = counts[k].label,
                      !.amount = totals[k].value,
                      !.opco_id = "all",
                      !.domain = Undefined,
                      !.record_type = Undefined,
                      !.region = Undefined,
                      !.vendor_name = counts[k].label,
                      !.invoice_count = counts[k].value,
                      !.total_amount = totals[k].value,
                      !.paid_count = paidOf(counts[k].label),
                      !.outstanding_count = counts[k].value - paidOf(counts[k].label),
                      !.payment_rate =
                          PaymentRate(paidOf(counts[k].label), counts[k].value)])
    IN SortByScoreDesc([k \in 1..Len(counts) |-> card(k)])

\* allSources.some(s => s.metadata?.domain === 'financial')
hasInvoiceResults(srcs) == \E i \in 1..Len(srcs) : srcs[i].metadata.domain = "financial"

\* the aggregation of every vendor query that has results, financial or not
AggregatesEveryVendorQuery(srcs, detected) == detected = "vendor" /\ Len(srcs) > 0

\* lines 1214-1239: the aggregation happens
Aggregates(srcs, detected) ==
    detected = "vendor" /\ Len(srcs) > 0 /\ hasInvoiceResults(srcs)

\* lines 1211-1242: finalSources
FinalSources(srcs, detected) ==
    IF Aggregates(srcs, detected) THEN aggregateVendorEntities(srcs) ELSE srcs

\* lines 1212-1242: actualEntityType
ActualEntityType(srcs, detected) ==
    IF detected = "vendor" /\ Len(srcs) > 0
    THEN (IF hasInvoiceResults(srcs) THEN "vendor" ELSE Null)
    ELSE IF detected \in {"customer", "equipment"} THEN detected
    ELSE Null

(***************************************************************************)
(* JSON values of the request body, the tool arguments and the filter.     *)
(***************************************************************************)
UndefinedV == [undefined |-> TRUE]
NullV      == [null |-> TRUE]
Str(s)     == [str |-> s]
Num(n)     == [num |-> n]
Obj(f)     == [obj |-> f]
Arr(items) == [arr |-> items]

IsStr(v) == DOMAIN v = {"str"}
IsNum(v) == DOMAIN v = {"num"}
IsObj(v) == DOMAIN v = {"obj"}
IsArr(v) == DOMAIN v = {"arr"}

\* the truthiness of a JSON value
TruthyV(v) ==
    \/ IsStr(v) /\ v.str # ""
    \/ IsNum(v) /\ v.num # 0
    \/ IsObj(v)
    \/ IsArr(v)

\* obj[key]: undefined when the key is absent
Get(obj, key) == IF key \in DOMAIN obj THEN obj[key] ELSE UndefinedV

\* obj[key] = value
Put(obj, key, value) ==
    [k \in DOMAIN obj \cup {key} |-> IF k = key THEN value ELSE obj[k]]

EmptyObject == <<>>

(***************************************************************************)
(* validateMetadataFilter (auth.ts, lines 295-324).                        *)
(***************************************************************************)
\* key.startsWith('$')
startsWithDollar(key) == Len(key) >= 1 /\ Head(key) = "$"

InvalidTopLevelKeys(f) ==
    {key \in DOMAIN f : startsWithDollar(key) /\ key # "$and" /\ key # "$or"}

\* checkForNull: some value is null, in obj or in an object nested in it
\* (arrays are not entered)
RECURSIVE HasNullValue(_)
HasNullValue(obj) ==
    \E key \in DOMAIN obj :
        \/ obj[key] = NullV
        \/ IsObj(obj[key]) /\ HasNullValue(obj[key].obj)

\* NoError when the filter is accepted, else the message of the Error thrown
validateMetadataFilter(f) ==
    IF InvalidTopLevelKeys(f) # {} THEN "Invalid top-level operator"
    ELSE IF HasNullValue(f) THEN "Null metadata value"
    ELSE NoError

(***************************************************************************)
(* executeToolCall (route.ts, lines 682-952) as POST calls it (lines       *)
(* 980-989 and 1118-1131).                                                 *)
(***************************************************************************)
ToolNames == {"search_all", "search_invoices", "search_customers", "search_equipment"}

\* the clamp without its upper limit
UserMaxResultsUnlimited(mr) == Max(1, IF TruthyV(mr) THEN mr.num ELSE 25)

\* line 982: Math.min(100, Math.max(1, maxResults || 25))
UserMaxResults(mr) == Min(100, Max(1, IF TruthyV(mr) THEN mr.num ELSE 25))

\* the LLM's query whenever it is a string, with no fallback
SearchQueryNoFallback(a, originalUserQuery) ==
    LET q == Get(a, "query") IN
    IF IsStr(q) THEN trim(q.str) ELSE trim(originalUserQuery)

\* lines 711-713: the LLM's query when it is a non-blank string, else the
\* user's query; both trimmed
SearchQuery(a, originalUserQuery) ==
    LET q == Get(a, "query") IN
    IF TruthyV(q) /\ IsStr(q) /\ trim(q.str) # ""
    THEN trim(q.str)
    ELSE trim(originalUserQuery)

Eq(value) == Obj("$eq" :> value)

\* the tool's constraints, with record_type taken from the arguments for
\* every tool
DomainFilterOverridable(tool, a) ==
    LET fixed == CASE tool = "search_invoices" -> Put(EmptyObject, "domain", Eq(Str("financial")))
                   [] tool = "search_customers" -> Put(EmptyObject, "domain", Eq(Str("crm")))
                   [] tool = "search_equipment" -> Put(EmptyObject, "domain", Eq(Str("field_service")))
                   [] OTHER -> EmptyObject
    IN IF TruthyV(Get(a, "record_type"))
       THEN Put(fixed, "record_type", Eq(Get(a, "record_type")))
       ELSE fixed

\* lines 757-772: the constraints the tool fixes
DomainFilter(tool, a) ==
    CASE tool = "search_invoices" ->
            Put(Put(EmptyObject, "domain", Eq(Str("financial"))), "record_type", Eq(Str("invoice")))
      [] tool = "search_customers" ->
            Put(Put(EmptyObject, "domain", Eq(Str("crm"))), "record_type", Eq(Str("customer")))
      [] tool = "search_equipment" ->
            Put(Put(EmptyObject, "domain", Eq(Str("field_service"))), "record_type", Eq(Str("equipment")))
      [] tool = "search_all" ->
            IF TruthyV(Get(a, "record_type"))
            THEN Put(EmptyObject, "record_type", Eq(Get(a, "record_type")))
            ELSE EmptyObject
      [] OTHER -> EmptyObject

\* if (args.key) filter.key = { $eq: args.key }
PutEqIfTruthy(f, a, key) ==
    IF TruthyV(Get(a, key)) THEN Put(f, key, Eq(Get(a, key))) ELSE f

\* the amount bound without the test for null
PutAmountBoundUnlessUndefined(f, a, key, op) ==
    LET v == Get(a, key) IN
    IF v # UndefinedV
    THEN LET amount == IF TruthyV(Get(f, "amount")) THEN f["amount"].obj ELSE EmptyObject
         IN Put(f, "amount", Obj(Put(amount, op, v)))
    ELSE f

\* if (args.key !== undefined && args.key !== null)
\*   { filter.amount = filter.amount || {}; filter.amount[op] = args.key }
PutAmountBound(f, a, key, op) ==
    LET v == Get(a, key) IN
    IF v # UndefinedV /\ v # NullV
    THEN LET amount == IF TruthyV(Get(f, "amount")) THEN f["amount"].obj ELSE EmptyObject
         IN Put(f, "amount", Obj(Put(amount, op, v)))
    ELSE f

\* lines 796-822: the equality arguments, in the order the code applies them
EqualityArgs == <<"payment_status", "service_type", "customer_type", "city", "state",
                  "equipment_type", "manufacturer", "condition", "warranty_status">>

\* lines 753-846: the filter executeToolCall assembles
BuildFilter(tool, a) ==
    LET f0 == DomainFilter(tool, a)
        eq[i \in 0..Len(EqualityArgs)] ==
            IF i = 0 THEN f0 ELSE PutEqIfTruthy(eq[i - 1], a, EqualityArgs[i])
        f1 == eq[Len(EqualityArgs)]
        f2 == PutAmountBound(f1, a, "amount_min", "$gte")
        f3 == PutAmountBound(f2, a, "amount_max", "$lte")
        f4 == PutEqIfTruthy(f3, a, "vendor")
        f5 == PutEqIfTruthy(f4, a, "region")
    IN f5

\* lines 852-859: the filter is validated when it has a key
FilterError(f) == IF DOMAIN f # {} THEN validateMetadataFilter(f) ELSE NoError

\* line 871: userMaxResults || args.top_k || (search_all ? 25 : 10)
TopK(tool, a, userMaxResults) ==
    IF userMaxResults # 0 THEN userMaxResults
    ELSE IF TruthyV(Get(a, "top_k")) THEN Get(a, "top_k").num
    ELSE IF tool = "search_all" THEN 25 ELSE 10

\* lines 869-874: the request index.query receives
VectorQuery(tool, a, f, userMaxResults) ==
    [topK |-> TopK(tool, a, userMaxResults),
     filter |-> IF DOMAIN f # {} THEN Obj(f) ELSE UndefinedV]

\* what the two external calls of a tool call may do
ExternalOutcomes == {"ok", "embedding fails", "query fails"}

(***************************************************************************)
(* The retry utilities (auth.ts, lines 172-289).  An error is              *)
(* [status, name, message]; status 0 stands for no status.                 *)
(***************************************************************************)
DefaultMaxRetries == 5
DefaultBaseDelay  == 1000
DefaultMaxDelay   == 60000
DefaultRetryableStatusCodes == {429, 500, 502, 503, 504}

\* { ...DEFAULT_OPTIONS, ...options }
MergeOptions(options) ==
    [maxRetries |-> IF "maxRetries" \in DOMAIN options
                    THEN options.maxRetries ELSE DefaultMaxRetries,
     baseDelay |-> IF "baseDelay" \in DOMAIN options
                   THEN options.baseDelay ELSE DefaultBaseDelay,
     maxDelay |-> IF "maxDelay" \in DOMAIN options
                  THEN options.maxDelay ELSE DefaultMaxDelay,
     retryableStatusCodes |-> DefaultRetryableStatusCodes]

RECURSIVE Pow2(_)
Pow2(n) == IF n = 0 THEN 1 ELSE 2 * Pow2(n - 1)

\* Math.min(baseDelay * Math.pow(2, attempt), maxDelay)
ExponentialDelay(n, baseDelay, maxDelay) == Min(baseDelay * Pow2(n), maxDelay)

\* calculateBackoff: the jitter is Math.random() * exponentialDelay * 0.1,
\* here a whole percentage below 10 of the exponential delay
JitterPercents == {0, 9}

Backoffs(n, baseDelay, maxDelay) ==
    LET exponentialDelay == ExponentialDelay(n, baseDelay, maxDelay) IN
    {exponentialDelay + (exponentialDelay * p) \div 100 : p \in JitterPercents}

\* only the status code is looked at
isRetryableErrorStatusOnly(error, retryableStatusCodes) ==
    error.status # 0 /\ error.status \in retryableStatusCodes

\* isRetryableError
isRetryableError(error, retryableStatusCodes) ==
    \/ error.status # 0 /\ error.status \in retryableStatusCodes
    \/ includes(error.name, "Timeout") \/ includes(error.name, "Unavailable")
    \/ includes(error.message, "ECONNRESET")
    \/ includes(error.message, "ETIMEDOUT")
    \/ includes(error.message, "ENOTFOUND")
    \/ includes(error.message, "network")

(***************************************************************************)
(* Idle values: what a specification holds the other steps' state at.      *)
(***************************************************************************)
DetectIdle ==
    /\ query = ""
    /\ detectedEntityType = Null
    /\ regional = FALSE

VizIdle ==
    /\ hits = <<>>
    /\ sources = <<>>
    /\ finalSources = <<>>
    /\ entityType = Null
    /\ charts = <<>>
    /\ visualization = NullVisualization

ToolIdle ==
    /\ maxResults = UndefinedV
    /\ toolName = ""
    /\ args = <<>>
    /\ embedInput = <<>>
    /\ filter = <<>>
    /\ vectorQueries = <<>>
    /\ toolError = NoError
    /\ status = 0

PostIdle ==
    /\ session = "valid"
    /\ user = <<>>
    /\ toolCalls = <<>>
    /\ callIndex = 0
    /\ llmCalls = 0
    /\ caught = UndefinedV
    /\ origin = ""
    /\ toolMessages = <<>>
    /\ transcript = <<>>
    /\ sessionRecord = "none"
    /\ requests = <<>>

RetryIdle ==
    /\ opts = <<>>
    /\ thrown = <<>>
    /\ attempt = 0
    /\ calls = 0
    /\ delays = <<>>
    /\ lastError = UndefinedV
    /\ outcome = UndefinedV

(***************************************************************************)
(* SpecDetect: a query is typed word by word, then classified (POST, line  *)
(* 1210, and generateVisualization, line 84).                              *)
(***************************************************************************)
MaxWords == 3

Vocabulary ==
    {"vendor", "Vendors", "invoice", "invoiced", "bills", "customers", "units", "region"}

RECURSIVE WordCount(_)
WordCount(s) ==
    IF s = "" THEN 0
    ELSE IF Len(s) = 1 THEN 1
    ELSE (IF Head(s) = " " THEN 1 ELSE 0) + WordCount(Tail(s))

DetectInit ==
    /\ pc = "typing"
    /\ DetectIdle /\ VizIdle /\ ToolIdle /\ PostIdle /\ RetryIdle

TypeWord ==
    /\ pc = "typing"
    /\ WordCount(query) < MaxWords
    /\ \E w \in Vocabulary :
        query' = IF query = "" THEN w ELSE query \o " " \o w
    /\ UNCHANGED <<pc, detectedEntityType, regional, vizVars, toolVars, retryVars, postVars>>

Detect ==
    /\ pc = "typing"
    /\ query # ""
    /\ detectedEntityType' = detectEntityQuery(query)
    /\ regional' = isRegionalQuery(query)
    /\ pc' = "detected"
    /\ UNCHANGED <<query, vizVars, toolVars, retryVars, postVars>>

DetectNext == TypeWord \/ Detect

SpecDetect == DetectInit /\ [][DetectNext]_vars

(***************************************************************************)
(* SpecViz: the hits are collected one by one (allSources.push, line       *)
(* 1198); then POST applies the entity aggregation (lines 1209-1243) and   *)
(* runs generateVisualization on the final sources (line 1273).            *)
(***************************************************************************)
MaxSources == 3

\* the raw results the tool calls return: three invoices, a deal, a lead,
\* two stock items (a manufacturer, no vendor) and a match with no metadata
SampleHits ==
    { [EmptyHit EXCEPT !.id = "inv-1", !.score = 9, !.defined = {"amount"}, !.opco_id = "OPCO-A",
        !.record_type = "invoice", !.domain = "financial", !.region = "West",
        !.vendor = "Carrier", !.payment_status = "paid",
        !.service_type = "emergency_repair", !.date = "2024-01-15", !.amount = 100],
      [EmptyHit EXCEPT !.id = "inv-2", !.score = 8, !.defined = {"amount"}, !.opco_id = "OPCO-B",
        !.record_type = "invoice", !.domain = "financial", !.region = "South",
        !.vendor = "Trane", !.payment_status = "overdue",
        !.service_type = "unknown", !.date = "2024-02-10", !.amount = 250],
      [EmptyHit EXCEPT !.id = "deal-1", !.score = 7, !.defined = {"deal_value"}, !.opco_id = "OPCO-A",
        !.record_type = "deal", !.domain = "crm", !.region = "West",
        !.lead_source = "referral", !.stage = "closed_won", !.channel = "email",
        !.date = "2024-03-05", !.deal_value = 500],
      [EmptyHit EXCEPT !.id = "lead-1", !.score = 6, !.opco_id = "OPCO-B",
        !.record_type = "lead", !.domain = "marketing",
        !.lead_source = "web", !.stage = "lost", !.channel = "social"],
      [EmptyHit EXCEPT !.id = "item-1", !.score = 5, !.opco_id = "OPCO-A",
        !.record_type = "stock_item", !.domain = "inventory",
        !.manufacturer = "Carrier", !.warehouse_location = "Phoenix",
        !.needs_reorder = "true"],
      [EmptyHit EXCEPT !.id = "item-2", !.score = 4, !.opco_id = "OPCO-B",
        !.record_type = "stock_item", !.domain = "inventory",
        !.manufacturer = "Lennox", !.warehouse_location = "Dallas",
        !.needs_reorder = "false"],
      [EmptyHit EXCEPT !.id = "inv-3", !.score = 3, !.defined = {"amount"}, !.opco_id = "OPCO-A",
        !.record_type = "invoice", !.domain = "financial", !.region = "West",
        !.vendor = "Carrier", !.payment_status = "paid",
        !.service_type = "emergency_repair", !.date = "2024-03-20", !.amount = 75],
      [EmptyHit EXCEPT !.id = "bare-1", !.score = 1] }

\* the same results as lines 1144-1196 normalise them
SampleResults == {Normalize(r) : r \in SampleHits}

SampleQueries ==
    {"compare revenue by region", "overdue invoices from Carrier",
     "top vendors by region", "customers in Phoenix", "units that need reorder"}

\* detectEntityQuery(query) of line 1210 and isRegionalQuery(query) of line
\* 84 for the sample queries
DetectedEntityOf == [q \in SampleQueries |-> detectEntityQuery(q)]
RegionalOf == [q \in SampleQueries |-> isRegionalQuery(q)]

VizInit ==
    /\ pc = "collecting"
    /\ DetectIdle /\ VizIdle /\ ToolIdle /\ PostIdle /\ RetryIdle

Collect ==
    /\ pc = "collecting"
    /\ Len(sources) < MaxSources
    /\ \E r \in SampleHits :
        /\ hits' = Append(hits, r)
        /\ sources' = Append(sources, Normalize(r))
    /\ UNCHANGED <<pc, finalSources, entityType, charts, visualization,
                   detectVars, toolVars, retryVars, postVars>>

Generate ==
    /\ pc = "collecting"
    /\ \E q \in SampleQueries :
        LET detected == DetectedEntityOf[q]
            final == FinalSources(sources, detected)
            et == ActualEntityType(sources, detected)
            cs == IF Len(final) = 0 THEN <<>>
                  ELSE CollectChartsFor(final, et, RegionalOf[q])
        IN
        /\ query' = q
        /\ detectedEntityType' = detected
        /\ regional' = RegionalOf[q]
        /\ finalSources' = final
        /\ entityType' = et
        /\ charts' = cs
        /\ visualization' = VisualizationOf(final, cs)
    /\ pc' = "generated"
    /\ UNCHANGED <<hits, sources, toolVars, retryVars, postVars>>

VizNext == Collect \/ Generate

SpecViz == VizInit /\ [][VizNext]_vars

HasType(cs, type) == \E i \in 1..Len(cs) : cs[i].type = type

\* the rank the type has in the order map > pie > bar > line
TypeRank(type) == CASE type = "map" -> 0 [] type = "pie" -> 1
                    [] type = "bar" -> 2 [] type = "line" -> 3 [] OTHER -> 4

\* C1: when more than 4 charts qualified, the 4 returned are the 4 ranked
\* highest by map > pie > bar > line: no dropped chart outranks a returned
\* one, and a map chart that qualified is among the charts returned.
C1_MapKeptWhenCapped ==
    (pc = "generated" /\ Len(charts) > maxCharts) =>
        /\ HasType(charts, "map") => HasType(visualization.charts, "map")
        /\ \A i \in 1..Len(charts) :
              (\A j \in 1..Len(visualization.charts) : visualization.charts[j] # charts[i])
                => \A j \in 1..Len(visualization.charts) :
                      TypeRank(visualization.charts[j].type) <= TypeRank(charts[i].type)

\* C2: the visualization holds at most 4 charts, exactly 4 whenever more
\* than 4 qualified, and is null when the result set is empty or no chart
\* qualifies (and only then).
C2_AtMostFourCharts ==
    pc = "generated" =>
        /\ (visualization = NullVisualization) <=> (Len(finalSources) = 0 \/ Len(charts) = 0)
        /\ visualization # NullVisualization =>
              /\ Len(visualization.charts) <= 4
              /\ Len(visualization.charts) = Min(4, Len(charts))
              /\ \A i \in 1..Len(visualization.charts) :
                    \E j \in 1..Len(charts) : charts[j] = visualization.charts[i]

C2_Witness ==
    /\ pc = "generated"
    /\ Len(charts) > 4
    /\ visualization # NullVisualization
    /\ Len(visualization.charts) = 4

\* the distinct non-unknown category values the result set holds for the
\* accumulator behind the chart with this title
FieldValues(srcs, field) ==
    {srcs[i].metadata[field] : i \in 1..Len(srcs)} \ {Undefined, Null, "", "unknown"}

\* the distinct months of the sources that carry an amount
MonthValues(srcs) ==
    {SubSeq(srcs[i].metadata.date, 1, Min(7, Len(srcs[i].metadata.date))) :
        i \in {j \in 1..Len(srcs) : srcs[j].metadata.amount # 0}} \ {""}

CategoriesBehind(title, srcs) ==
    CASE title \in {"Invoices by Vendor", "Total Amount by Vendor"} ->
            FieldValues(srcs, "vendor_name")
      [] title = "Results by Region" -> FieldValues(srcs, "region")
      [] title = "Results by Record Type" -> FieldValues(srcs, "record_type")
      [] title = "Payment Status" -> FieldValues(srcs, "payment_status")
      [] title = "By Service Type" -> FieldValues(srcs, "service_type")
      [] title = "Monthly Amounts" ->
            MonthValues(srcs)
      [] title = "Top Vendors" -> FieldValues(srcs, "vendor")
      [] title = "Lead Sources" -> FieldValues(srcs, "lead_source")
      [] title = "Deals by Stage" -> FieldValues(srcs, "stage")
      [] title = "Marketing Channels" -> FieldValues(srcs, "channel")
      [] title = "By Manufacturer" -> FieldValues(srcs, "manufacturer")
      [] title = "By Warehouse" -> FieldValues(srcs, "warehouse_location")
      [] title = "Equipment Condition" -> FieldValues(srcs, "condition")
      [] title = "Equipment Types" -> FieldValues(srcs, "equipment_type")
      [] title = "Reorder Status" -> FieldValues(srcs, "needs_reorder")
      [] OTHER -> {}

\* C3: no chart is emitted for an accumulator with fewer than 2 distinct
\* non-unknown category values; this covers every accumulator and the
\* vendor-entity bar charts.
C3_NoChartBelowTwoCategories ==
    (pc = "generated" /\ visualization # NullVisualization) =>
        \A i \in 1..Len(visualization.charts) :
            Cardinality(CategoriesBehind(visualization.charts[i].title, finalSources)) >= 2

\* the sample queries that ask for a regional view: a comparison across
\* regions, a breakdown "by region"
RegionalIntentQueries == {"compare revenue by region", "top vendors by region"}

\* the charts of the visualization that have this type
ChartsOfType(type) ==
    IF visualization = NullVisualization THEN <<>>
    ELSE SelectSeq(visualization.charts, LAMBDA c : c.type = type)

\* C12: a map chart is in the visualization only if the query has regional
\* intent and the results hold at least 2 distinct regions; results that
\* carry region values give no map chart for a query without regional
\* intent.
C12_MapOnlyForRegionalIntent ==
    (pc = "generated" /\ Len(ChartsOfType("map")) > 0) =>
        /\ query \in RegionalIntentQueries
        /\ Cardinality(FieldValues(finalSources, "region")) >= 2

C12_Witness ==
    /\ pc = "generated"
    /\ query = "compare revenue by region"
    /\ Cardinality(FieldValues(finalSources, "region")) = 2
    /\ Len(ChartsOfType("map")) = 1
    /\ Len(visualization.charts) = 4

\* the sum of the values of a chart's data points
RECURSIVE SumValues(_)
SumValues(data) ==
    IF data = <<>> THEN 0 ELSE Head(data).value + SumValues(Tail(data))

\* C13: for a query with regional intent whose results span N >= 2 distinct
\* non-unknown regions, the visualization holds exactly one map chart, with
\* N data points whose values sum to the number of results that have a
\* region.
C13_OneMapChartPerRegionalQuery ==
    (/\ pc = "generated"
     /\ query \in RegionalIntentQueries
     /\ Cardinality(FieldValues(finalSources, "region")) >= 2) =>
        /\ Len(ChartsOfType("map")) = 1
        /\ Len(ChartsOfType("map")[1].data) = Cardinality(FieldValues(finalSources, "region"))
        /\ SumValues(ChartsOfType("map")[1].data) =
              Cardinality({i \in 1..Len(finalSources) :
                  finalSources[i].metadata.region \in FieldValues(finalSources, "region")})

\* the vendor key of a raw result: its vendor name, else its manufacturer,
\* else the literal "Unknown Vendor"
VendorKey(r) ==
    IF Truthy(r.vendor) THEN r.vendor
    ELSE IF Truthy(r.manufacturer) THEN r.manufacturer
    ELSE "Unknown Vendor"

\* a percentage string: digits followed by '%'
IsPercentage(p) ==
    /\ Len(p) >= 2
    /\ CharAt(p, Len(p)) = "%"
    /\ \A i \in 1..(Len(p) - 1) : CharAt(p, i) \in Digits

\* C11: vendor aggregation returns exactly one card per distinct vendor key
\* of the collected results (vendor name, else manufacturer, else "Unknown
\* Vendor"); each card counts the results of its key, so invoice_count >= 1,
\* has a payment_rate string ending in '%', and the cards are ordered by
\* invoice_count descending.
C11_OneCardPerVendorKey ==
    (pc = "generated" /\ entityType = "vendor") =>
        LET keys == {VendorKey(hits[i]) : i \in 1..Len(hits)} IN
        /\ Len(finalSources) = Cardinality(keys)
        /\ {finalSources[k].metadata.vendor_name : k \in 1..Len(finalSources)} = keys
        /\ \A k \in 1..Len(finalSources) :
              /\ finalSources[k].metadata.invoice_count =
                    Cardinality({i \in 1..Len(hits) :
                                    VendorKey(hits[i]) = finalSources[k].metadata.vendor_name})
              /\ finalSources[k].metadata.invoice_count >= 1
              /\ IsPercentage(finalSources[k].metadata.payment_rate)
        /\ \A k \in 1..(Len(finalSources) - 1) :
              finalSources[k].metadata.invoice_count
                >= finalSources[k + 1].metadata.invoice_count

C11_Witness ==
    /\ pc = "generated"
    /\ entityType = "vendor"
    /\ Len(hits) = 3
    /\ hits[1].id = "item-2"
    /\ Len(finalSources) = 2
    /\ finalSources[1].metadata.vendor_name = "Carrier"
    /\ finalSources[1].metadata.invoice_count = 2
    /\ finalSources[1].metadata.payment_rate = "100%"
    /\ finalSources[2].metadata.vendor_name = "Lennox"
    /\ finalSources[2].metadata.payment_rate = "0%"

(***************************************************************************)
(* One tool call of a request.  POST answers 400 to a request without a    *)
(* query (lines 984-989); otherwise the router's tool call is executed     *)
(* (lines 1118-1131).                                                      *)
(***************************************************************************)
BadRequest ==
    /\ pc = "routed"
    /\ query = ""
    /\ status' = 400
    /\ pc' = "responded"
    /\ UNCHANGED <<maxResults, toolName, args, embedInput, filter, vectorQueries, toolError,
                   detectVars, vizVars, retryVars, postVars>>

ExecuteToolCall ==
    /\ pc = "routed"
    /\ query # ""
    /\ LET userMaxResults == UserMaxResults(maxResults)
           searchQuery == SearchQuery(args, query)
           f == BuildFilter(toolName, args)
       IN IF searchQuery = ""
          THEN /\ toolError' = "Missing or invalid query parameter. The search query is required."
               /\ UNCHANGED <<embedInput, filter, vectorQueries>>
          ELSE \E o \in ExternalOutcomes :
               /\ embedInput' = Append(embedInput, searchQuery)
               /\ IF o = "embedding fails"
                  THEN /\ toolError' = "OpenAI embedding API error"
                       /\ UNCHANGED <<filter, vectorQueries>>
                  ELSE /\ filter' = f
                       /\ IF FilterError(f) # NoError
                          THEN /\ toolError' = "Filter validation failed"
                               /\ UNCHANGED vectorQueries
                          ELSE /\ vectorQueries' =
                                    Append(vectorQueries,
                                           VectorQuery(toolName, args, f, userMaxResults))
                               /\ toolError' = IF o = "query fails"
                                               THEN "Pinecone query error" ELSE NoError
    /\ pc' = "executed"
    /\ UNCHANGED <<maxResults, toolName, args, status, detectVars, vizVars, retryVars, postVars>>

(***************************************************************************)
(* SpecCall: the request's query and maxResults and the tool call's query  *)
(* and top_k are drawn from the sets below.                                *)
(***************************************************************************)
UserQueries == {"", "Carrier", " overdue invoices ", "   "}

MaxResultsValues ==
    {UndefinedV, NullV, Num(0), Num(-5), Num(1), Num(10), Num(100), Num(101), Num(250)}

LlmQueryValues ==
    {UndefinedV, NullV, Str(""), Str("  "), Num(42), Str("overdue"), Str(" Carrier invoices ")}

LlmTopKValues == {UndefinedV, NullV, Num(5), Num(500)}

\* { key: value }, without the key when the value is undefined
Field(key, value) == IF value = UndefinedV THEN EmptyObject ELSE key :> value

CallInit ==
    /\ pc = "routed"
    /\ query \in UserQueries
    /\ maxResults \in MaxResultsValues
    /\ toolName \in ToolNames
    /\ args \in {Field("query", q) @@ Field("top_k", k) :
                    q \in LlmQueryValues, k \in LlmTopKValues}
    /\ embedInput = <<>>
    /\ filter = EmptyObject
    /\ vectorQueries = <<>>
    /\ toolError = NoError
    /\ status = 0
    /\ detectedEntityType = Null
    /\ regional = FALSE
    /\ VizIdle /\ PostIdle /\ RetryIdle

CallNext == BadRequest \/ ExecuteToolCall

SpecCall == CallInit /\ [][CallNext]_vars

\* the LLM gave no usable query: missing, null, not a string, empty or blank
NoLlmQuery ==
    LET q == Get(args, "query") IN ~IsStr(q) \/ trim(q.str) = ""

\* C4 as stated: without a usable LLM query the string sent to the
\* embedding step is the original user query, and the embedding step is
\* never called with an empty string.
C4_FallbackIsOriginalQuery ==
    /\ (pc = "executed" /\ NoLlmQuery) =>
            \A i \in 1..Len(embedInput) : embedInput[i] = query
    /\ \A i \in 1..Len(embedInput) : embedInput[i] # ""

\* C4 as amended: without a usable LLM query the string sent to the
\* embedding step is the original user query with leading and trailing
\* white space trimmed; the embedding step is never called with an empty
\* string, and when no non-empty string is available the tool call fails
\* before embedding.
C4_FallbackIsTrimmedQuery ==
    /\ (pc = "executed" /\ NoLlmQuery) =>
            /\ \A i \in 1..Len(embedInput) : embedInput[i] = trim(query)
            /\ (trim(query) # "") => Len(embedInput) = 1
            /\ (trim(query) = "") => (Len(embedInput) = 0 /\ toolError # NoError)
    /\ \A i \in 1..Len(embedInput) : embedInput[i] # ""

C4_Witness ==
    /\ pc = "executed"
    /\ Get(args, "query") = Str("  ")
    /\ query = " overdue invoices "
    /\ embedInput = <<"overdue invoices">>

\* C5: for every integer maxResults (absent, zero, negative, above 100) and
\* whatever top_k the LLM gives, the topK of every vector-store query of the
\* request lies in [1, 100].
C5_TopKInRange ==
    \A i \in 1..Len(vectorQueries) :
        vectorQueries[i].topK >= 1 /\ vectorQueries[i].topK <= 100

C5_Witness ==
    /\ pc = "executed"
    /\ maxResults = Num(250)
    /\ Get(args, "top_k") = Num(500)
    /\ Len(vectorQueries) = 1
    /\ vectorQueries[1].topK = 100

\* C6: with no maxResults in the request and no top_k in the tool call the
\* vector query uses topK = 10 for the single-domain tools and 25 for
\* search_all; a requested value only caps that default.
C6_DefaultTopKPerTool ==
    (pc = "executed" /\ Len(vectorQueries) = 1 /\ Get(args, "top_k") = UndefinedV) =>
        LET default == IF toolName = "search_all" THEN 25 ELSE 10 IN
        /\ maxResults = UndefinedV => vectorQueries[1].topK = default
        /\ IsNum(maxResults) => vectorQueries[1].topK <= default

(***************************************************************************)
(* SpecFilter: the router fills the tool call's arguments one by one, then *)
(* the tool call is executed.                                              *)
(***************************************************************************)
MaxArgs == 2

\* the argument names of the tool catalog that reach the filter, and
\* "domain", which no tool declares
FilterArgNames ==
    {"record_type", "payment_status", "service_type", "customer_type", "city", "state",
     "equipment_type", "manufacturer", "condition", "warranty_status",
     "amount_min", "amount_max", "vendor", "region", "domain"}

ArgValues(name) ==
    CASE name = "record_type"     -> {Str("expense"), Str("")}
      [] name = "payment_status"  -> {Str("overdue"), NullV}
      [] name = "service_type"    -> {Str("retrofit")}
      [] name = "customer_type"   -> {Str("hospital")}
      [] name = "city"            -> {Str("Phoenix"), NullV}
      [] name = "state"           -> {Str("AZ")}
      [] name = "equipment_type"  -> {Str("chiller")}
      [] name = "manufacturer"    -> {Str("Trane")}
      [] name = "condition"       -> {Str("poor")}
      [] name = "warranty_status" -> {Str("expired")}
      [] name = "amount_min"      -> {Num(0), Num(500), NullV}
      [] name = "amount_max"      -> {Num(1000), NullV}
      [] name = "vendor"          -> {Str("Carrier"), Str("")}
      [] name = "region"          -> {Str("Southwest")}
      [] name = "domain"          -> {Str("crm")}

FilterInit ==
    /\ pc = "routed"
    /\ query = "overdue invoices from Carrier"
    /\ maxResults = UndefinedV
    /\ toolName \in ToolNames
    /\ args = Field("query", Str("overdue invoices"))
    /\ embedInput = <<>>
    /\ filter = EmptyObject
    /\ vectorQueries = <<>>
    /\ toolError = NoError
    /\ status = 0
    /\ detectedEntityType = Null
    /\ regional = FALSE
    /\ VizIdle /\ PostIdle /\ RetryIdle

RouterAddsArgument ==
    /\ pc = "routed"
    /\ Cardinality(DOMAIN args \cap FilterArgNames) < MaxArgs
    /\ \E name \in FilterArgNames \ DOMAIN args : \E value \in ArgValues(name) :
        args' = Put(args, name, value)
    /\ UNCHANGED <<pc, maxResults, toolName, embedInput, filter, vectorQueries, toolError,
                   status, detectVars, vizVars, retryVars, postVars>>

FilterNext == RouterAddsArgument \/ ExecuteToolCall

SpecFilter == FilterInit /\ [][FilterNext]_vars

\* some key of obj, at any depth, is bound to null
RECURSIVE BindsNull(_)
BindsNull(v) ==
    \/ v = NullV
    \/ IsObj(v) /\ \E key \in DOMAIN v.obj : BindsNull(v.obj[key])

UserEqualityArgs ==
    {"payment_status", "service_type", "customer_type", "city", "state", "equipment_type",
     "manufacturer", "condition", "warranty_status", "vendor", "region"}

\* an argument is present when it is given and is not null or empty
Present(a, name) == name \in DOMAIN a /\ a[name] \notin {NullV, UndefinedV, Str("")}

IntentDomain(tool) ==
    CASE tool = "search_invoices" -> "financial"
      [] tool = "search_customers" -> "crm"
      [] tool = "search_equipment" -> "field_service"
      [] OTHER -> ""

IntentRecordType(tool) ==
    CASE tool = "search_invoices" -> "invoice"
      [] tool = "search_customers" -> "customer"
      [] tool = "search_equipment" -> "equipment"
      [] OTHER -> ""

\* C8: the filter consists of exactly the domain and record_type equality
\* the intent fixes (search_all: no domain, record_type only when given),
\* one equality per user argument that is present, and the amount range of
\* amount_min / amount_max; no argument overrides or removes the intent's
\* domain / record_type constraint.
C8_FilterIsIntentPlusArgs ==
    (pc = "executed" /\ Len(embedInput) = 1 /\ toolError # "OpenAI embedding API error") =>
        /\ DOMAIN filter =
              (IF toolName = "search_all"
               THEN {name \in {"record_type"} : Present(args, name)}
               ELSE {"domain", "record_type"})
              \cup {name \in UserEqualityArgs : Present(args, name)}
              \cup {name \in {"amount"} : Present(args, "amount_min") \/ Present(args, "amount_max")}
        /\ toolName # "search_all" =>
              /\ filter["domain"] = Obj("$eq" :> Str(IntentDomain(toolName)))
              /\ filter["record_type"] = Obj("$eq" :> Str(IntentRecordType(toolName)))
        /\ (toolName = "search_all" /\ Present(args, "record_type")) =>
              filter["record_type"] = Obj("$eq" :> args["record_type"])
        /\ \A name \in UserEqualityArgs :
              Present(args, name) => filter[name] = Obj("$eq" :> args[name])
        /\ "amount" \in DOMAIN filter =>
              /\ DOMAIN filter["amount"].obj =
                    {op \in {"$gte"} : Present(args, "amount_min")}
                    \cup {op \in {"$lte"} : Present(args, "amount_max")}
              /\ Present(args, "amount_min") => filter["amount"].obj["$gte"] = args["amount_min"]
              /\ Present(args, "amount_max") => filter["amount"].obj["$lte"] = args["amount_max"]
        /\ \A i \in 1..Len(vectorQueries) :
              vectorQueries[i].filter = IF DOMAIN filter = {} THEN UndefinedV ELSE Obj(filter)

C8_Witness ==
    /\ pc = "executed"
    /\ toolName = "search_invoices"
    /\ Get(args, "record_type") = Str("expense")
    /\ Get(args, "payment_status") = Str("overdue")
    /\ Len(vectorQueries) = 1
    /\ vectorQueries[1].filter =
          Obj([domain |-> Obj("$eq" :> Str("financial")),
               record_type |-> Obj("$eq" :> Str("invoice")),
               payment_status |-> Obj("$eq" :> Str("overdue"))])

(***************************************************************************)
(* SpecRetry: retryOperation (auth.ts, lines 243-289) on an operation      *)
(* whose every call either returns or throws one of the errors below.      *)
(***************************************************************************)
MaxRetriesOption == 2

Error(st, name, message) == [status |-> st, name |-> name, message |-> message]

\* a rate limit and a connection reset: transient
TransientErrors ==
    { Error(429, "Error", "Too many requests"),
      Error(0, "Error", "read ECONNRESET") }

\* a malformed request and a dimension mismatch: permanent
PermanentErrors ==
    { Error(400, "Error", "Bad request"),
      Error(0, "PineconeError", "Vector dimension 3 does not match") }

\* an operation that ran out of time
TimeoutErrors == { Error(0, "TimeoutError", "The operation timed out") }

OperationErrors == TransientErrors \cup PermanentErrors \cup TimeoutErrors

RetryOptions ==
    {EmptyObject} \cup {[maxRetries |-> n] : n \in 0..MaxRetriesOption}
                  \cup {[maxRetries |-> MaxRetriesOption, maxDelay |-> 1500]}

RetryInit ==
    /\ pc = "calling"
    /\ opts \in {MergeOptions(options) : options \in RetryOptions}
    /\ thrown = <<>>
    /\ attempt = 0
    /\ calls = 0
    /\ delays = <<>>
    /\ lastError = UndefinedV
    /\ outcome = UndefinedV
    /\ DetectIdle /\ VizIdle /\ ToolIdle /\ PostIdle

\* return await operation()
OperationReturns ==
    /\ pc = "calling"
    /\ attempt <= opts.maxRetries
    /\ calls' = calls + 1
    /\ outcome' = [returned |-> TRUE]
    /\ pc' = "done"
    /\ UNCHANGED <<opts, thrown, attempt, delays, lastError, detectVars, vizVars, toolVars, postVars>>

\* the catch block: the last attempt and a non-retryable error end the
\* call with the error, a retryable error starts the backoff
OperationThrows ==
    /\ pc = "calling"
    /\ attempt <= opts.maxRetries
    /\ \E error \in OperationErrors :
        /\ calls' = calls + 1
        /\ thrown' = Append(thrown, error)
        /\ lastError' = error
        /\ IF attempt = opts.maxRetries
           THEN /\ outcome' = [thrown |-> error]
                /\ pc' = "done"
                /\ UNCHANGED delays
           ELSE IF ~isRetryableError(error, opts.retryableStatusCodes)
           THEN /\ outcome' = [thrown |-> error]
                /\ pc' = "done"
                /\ UNCHANGED delays
           ELSE /\ \E delay \in Backoffs(attempt, opts.baseDelay, opts.maxDelay) :
                      delays' = Append(delays, delay)
                /\ pc' = "waiting"
                /\ UNCHANGED outcome
    /\ UNCHANGED <<opts, attempt, detectVars, vizVars, toolVars, postVars>>

\* the timer of line 279 fires and the loop goes round
BackoffElapses ==
    /\ pc = "waiting"
    /\ attempt' = attempt + 1
    /\ pc' = "calling"
    /\ UNCHANGED <<opts, thrown, calls, delays, lastError, outcome,
                   detectVars, vizVars, toolVars, postVars>>

RetryNext == OperationReturns \/ OperationThrows \/ BackoffElapses

SpecRetry == RetryInit /\ [][RetryNext]_vars

\* C9: on an operation that always fails with a retryable error
\* retryOperation makes exactly maxRetries + 1 attempts and then throws the
\* error of the last attempt; on an operation that fails with a
\* non-retryable error it makes exactly 1 attempt and throws that error
\* without any delay.
C9_RetryAttempts ==
    (pc = "done" /\ outcome # [returned |-> TRUE]) =>
        /\ (\A i \in 1..Len(thrown) : thrown[i] \in TransientErrors) =>
              /\ calls = opts.maxRetries + 1
              /\ Len(thrown) = calls
              /\ outcome = [thrown |-> thrown[Len(thrown)]]
        /\ (Len(thrown) >= 1 /\ thrown[1] \in PermanentErrors) =>
              /\ calls = 1
              /\ delays = <<>>
              /\ outcome = [thrown |-> thrown[1]]

C9_Witness ==
    /\ pc = "done"
    /\ opts.maxRetries = DefaultMaxRetries
    /\ calls = DefaultMaxRetries + 1
    /\ \A i \in 1..Len(thrown) : thrown[i] \in TransientErrors
    /\ thrown[1] # thrown[Len(thrown)]
    /\ outcome = [thrown |-> thrown[Len(thrown)]]
    /\ Len(delays) = DefaultMaxRetries

\* C10: a query containing both "vendor" and "invoice" is never classified
\* as a vendor-entity query, whatever the phrasing (plural and inflected
\* forms included).
C10_VendorInvoiceExcluded ==
    (pc = "detected" /\ includes(toLowerCase(query), "vendor")
                     /\ includes(toLowerCase(query), "invoice"))
        => detectedEntityType # "vendor"

(***************************************************************************)
(* POST (route.ts, lines 954-1396) for one request.  Each await of an      *)
(* external service is a pair of steps: the handler sends the request and  *)
(* waits, then the service answers or the call throws.                     *)
(***************************************************************************)
\* lines 1316-1374: the status code the catch block answers with
ClassifyError(error) ==
    IF error.name = "PineconeError"
    THEN (IF includes(error.message, "authentication") \/ includes(error.message, "API key")
          THEN 401
          ELSE IF includes(error.message, "access denied") THEN 403
          ELSE IF includes(error.message, "not found") THEN 404
          ELSE IF includes(error.message, "rate limit") THEN 429
          ELSE IF includes(error.message, "network") THEN 503
          ELSE 500)
    ELSE IF error.status = 401 \/ error.status = 403 THEN 401
    ELSE IF error.status = 429 THEN 429
    ELSE IF \/ error.status = 400
            \/ includes(error.message, "validation")
            \/ includes(error.message, "Filter validation") THEN 400
    ELSE IF includes(error.message, "dimension") THEN 500
    ELSE IF error.status = 504 \/ includes(error.name, "Timeout") THEN 504
    ELSE IF error.status = 503 THEN 503
    ELSE IF includes(error.message, "query") /\ includes(error.message, "required") THEN 400
    ELSE IF includes(error.message, "Connection error") THEN 503
    ELSE 500

\* new Error(message): no status
PlainError(message) == Error(0, "Error", message)

\* lines 1012-1015 and 747-750: the error of a response that is not ok
HttpError(api, st) == PlainError(api \o " API error: " \o ToString(st) \o " - {}")

\* line 715
MissingQueryError ==
    PlainError("Missing or invalid query parameter. The search query is required.")

\* line 857
FilterValidationError(message) == PlainError("Filter validation failed: " \o message)

\* what a fetch or an SDK call rejects with when the network fails: a
\* connection reset, a failed DNS lookup, a generic network fault
NetworkErrors ==
    { PlainError("read ECONNRESET"),
      PlainError("getaddrinfo ENOTFOUND api.openai.com"),
      Error(0, "TypeError", "fetch failed") }

\* the rate limit of the vector store, with the HTTP status on the error
RateLimitErrors == { Error(429, "Error", "Too Many Requests") }

\* the errors of a chat-completion call (lines 1002-1018)
ChatErrors == NetworkErrors \cup { HttpError("OpenAI", 429), HttpError("OpenAI", 500) }

\* the errors of the embedding call (lines 727-751)
EmbeddingErrors == NetworkErrors \cup { HttpError("OpenAI embedding", 429) }

\* the errors of index.query (lines 867-884)
VectorErrors ==
    NetworkErrors \cup RateLimitErrors
        \cup { PlainError("Connection error."),
               Error(0, "PineconeError", "Pinecone rate limit exceeded"),
               Error(503, "Error", "Service Unavailable") }

\* the step ends in the catch block
Fail(error, step) ==
    /\ caught' = error
    /\ origin' = step
    /\ status' = ClassifyError(error)
    /\ pc' = "responded"

\* the step answers without an error
Respond(st) ==
    /\ status' = st
    /\ pc' = "responded"
    /\ UNCHANGED <<caught, origin>>

\* lines 961-968: no session cookie
NotAuthenticated ==
    /\ pc = "received"
    /\ session = "none"
    /\ Respond(401)
    /\ UNCHANGED <<detectVars, vizVars, maxResults, toolName, args, embedInput, filter,
                   vectorQueries, toolError, session, user, sessionRecord, requests, toolMessages, transcript, toolCalls, callIndex, llmCalls,
                   retryVars>>

\* lines 971-978: validateSession returns null
InvalidSession ==
    /\ pc = "received"
    /\ session = "invalid"
    /\ Respond(401)
    /\ UNCHANGED <<detectVars, vizVars, maxResults, toolName, args, embedInput, filter,
                   vectorQueries, toolError, session, user, sessionRecord, requests, toolMessages, transcript, toolCalls, callIndex, llmCalls,
                   retryVars>>

\* lines 980-989
MissingQuery ==
    /\ pc = "received"
    /\ session = "valid"
    /\ query = ""
    /\ Respond(400)
    /\ UNCHANGED <<detectVars, vizVars, maxResults, toolName, args, embedInput, filter,
                   vectorQueries, toolError, session, user, sessionRecord, requests, toolMessages, transcript, toolCalls, callIndex, llmCalls,
                   retryVars>>

\* lines 992-997
NoOpCo ==
    /\ pc = "received"
    /\ session = "valid"
    /\ query # ""
    /\ user.opCoCode = Null /\ user.role # "ADMIN"
    /\ Respond(403)
    /\ UNCHANGED <<detectVars, vizVars, maxResults, toolName, args, embedInput, filter,
                   vectorQueries, toolError, session, user, sessionRecord, requests, toolMessages, transcript, toolCalls, callIndex, llmCalls,
                   retryVars>>

\* the tool-selection request sent without the test of the user's OpCo
CallRouterUnguarded ==
    /\ pc = "received"
    /\ session = "valid"
    /\ query # ""
    /\ llmCalls' = llmCalls + 1
    /\ pc' = "awaiting router"
    /\ UNCHANGED <<detectVars, vizVars, toolVars, session, user, sessionRecord, requests, toolMessages, transcript, toolCalls, callIndex,
                   caught, origin, retryVars>>

\* lines 1021-1101: the tool-selection request is sent
CallRouter ==
    /\ pc = "received"
    /\ session = "valid"
    /\ query # ""
    /\ ~(user.opCoCode = Null /\ user.role # "ADMIN")
    /\ llmCalls' = llmCalls + 1
    /\ pc' = "awaiting router"
    /\ UNCHANGED <<detectVars, vizVars, toolVars, session, user, sessionRecord, requests, toolMessages, transcript, toolCalls, callIndex,
                   caught, origin, retryVars>>

\* the matches of the index in the order of their score
RECURSIVE ByScore(_)
ByScore(S) ==
    IF S = {} THEN <<>>
    ELSE LET top == CHOOSE r \in S : \A o \in S : o.score <= r.score
         IN <<top>> \o ByScore(S \ {top})

\* the vector store's test of one metadata field against its condition
MatchesCondition(r, key, cond) ==
    /\ key \in DOMAIN r
    /\ IsObj(cond)
    /\ \A op \in DOMAIN cond.obj :
          CASE op = "$eq" -> IsStr(cond.obj[op]) /\ r[key] = cond.obj[op].str
            [] op = "$gte" -> IsNum(cond.obj[op]) /\ r[key] >= cond.obj[op].num
            [] op = "$lte" -> IsNum(cond.obj[op]) /\ r[key] <= cond.obj[op].num
            [] OTHER -> FALSE

\* the vector store applies the filter of the query to the metadata
MatchesFilter(r, f) == \A key \in DOMAIN f : MatchesCondition(r, key, f[key])

MaxMatches == 2

\* queryResponse.matches: the best matches of the index that pass the
\* filter, at most topK of them
QueryResponses(q) ==
    LET f == IF q.filter = UndefinedV THEN EmptyObject ELSE q.filter.obj
        matching == ByScore({r \in SampleHits : MatchesFilter(r, f)})
    IN {SubSeq(matching, 1, n) : n \in 0..Min(Min(q.topK, MaxMatches), Len(matching))}

\* the inputs of a request
MaxToolCalls == 2

Sessions == {"none", "invalid", "valid"}

Users ==
    { [role |-> "ADMIN", opCoCode |-> Null],
      [role |-> "EMPLOYEE", opCoCode |-> "OPCO-A"],
      [role |-> "EMPLOYEE", opCoCode |-> "OPCO-B"],
      [role |-> "EMPLOYEE", opCoCode |-> Null] }

PostQueries == {"", "overdue invoices from Carrier", "compare revenue by region"}

ToolCall(name, a) == [name |-> name, args |-> a]

\* a city that is an object holding a null: the schema of the tools asks
\* for a string, JSON.parse accepts what the LLM wrote
SampleToolCalls ==
    { ToolCall("search_invoices",
               Put(Put(EmptyObject, "query", Str("Carrier invoices")), "vendor", Str("Carrier"))),
      ToolCall("search_all", Put(EmptyObject, "query", Str("revenue by region"))),
      ToolCall("search_customers",
               Put(EmptyObject, "city", Obj(Put(EmptyObject, "name", NullV)))) }

RouterChoices ==
    UNION {[1..n -> SampleToolCalls] : n \in 1..MaxToolCalls}

\* lines 1104-1116: the router's answer
RouterAnswers ==
    /\ pc = "awaiting router"
    /\ \/ \E e \in ChatErrors :
            /\ Fail(e, "router")
            /\ UNCHANGED <<toolCalls, callIndex>>
       \/ /\ Respond(200)
          /\ UNCHANGED <<toolCalls, callIndex>>
       \/ \E tcs \in RouterChoices :
            /\ toolCalls' = [i \in 1..Len(tcs) |->
                                [id |-> "call_" \o ToString(i),
                                 name |-> tcs[i].name, args |-> tcs[i].args]]
            /\ callIndex' = 1
            /\ pc' = "tool call"
            /\ UNCHANGED <<status, caught, origin>>
    /\ UNCHANGED <<detectVars, vizVars, maxResults, toolName, args, embedInput, filter,
                   vectorQueries, toolError, session, user, sessionRecord, requests, toolMessages, transcript, llmCalls, retryVars>>

\* lines 1118-1131 and 682-741: the loop takes the next tool call and
\* executeToolCall sends the embedding request
StartToolCall ==
    /\ pc = "tool call"
    /\ LET toolCall == toolCalls[callIndex]
           searchQuery == SearchQuery(toolCall.args, query)
       IN /\ toolName' = toolCall.name
          /\ args' = toolCall.args
          /\ IF searchQuery = ""
             THEN /\ Fail(MissingQueryError, "tool call")
                  /\ UNCHANGED embedInput
             ELSE /\ embedInput' = Append(embedInput, searchQuery)
                  /\ pc' = "awaiting embedding"
                  /\ UNCHANGED <<status, caught, origin>>
    /\ UNCHANGED <<detectVars, vizVars, maxResults, filter, vectorQueries, toolError,
                   session, user, sessionRecord, requests, toolMessages, transcript, toolCalls, callIndex, llmCalls, retryVars>>

\* lines 742-884: the embedding arrives, the filter is built and validated,
\* the vector query is sent
EmbeddingAnswers ==
    /\ pc = "awaiting embedding"
    /\ \/ \E e \in EmbeddingErrors :
            /\ Fail(e, "embedding")
            /\ UNCHANGED <<filter, vectorQueries>>
       \/ LET f == BuildFilter(toolName, args) IN
          /\ filter' = f
          /\ IF FilterError(f) # NoError
             THEN /\ Fail(FilterValidationError(FilterError(f)), "filter validation")
                  /\ UNCHANGED vectorQueries
             ELSE /\ vectorQueries' =
                        Append(vectorQueries,
                               VectorQuery(toolName, args, f, UserMaxResults(maxResults)))
                  /\ pc' = "awaiting query"
                  /\ UNCHANGED <<status, caught, origin>>
    /\ UNCHANGED <<detectVars, vizVars, maxResults, toolName, args, embedInput, toolError,
                   session, user, sessionRecord, requests, toolMessages, transcript, toolCalls, callIndex, llmCalls, retryVars>>

\* the loop left for the summarization after the first answered tool call
QueryAnswersEndsLoop ==
    /\ pc = "awaiting query"
    /\ \/ \E e \in VectorErrors :
            /\ Fail(e, "vector query")
            /\ UNCHANGED <<hits, sources, callIndex, toolMessages>>
       \/ \E rs \in QueryResponses(vectorQueries[Len(vectorQueries)]) :
            /\ hits' = hits \o rs
            /\ sources' = sources \o [i \in 1..Len(rs) |-> Normalize(rs[i])]
            /\ toolMessages' =
                  Append(toolMessages,
                         [role |-> "tool",
                          tool_call_id |-> toolCalls[callIndex].id,
                          content |-> [results |-> rs, count |-> Len(rs),
                                       filters_applied |-> filter]])
            /\ callIndex' = callIndex + 1
            /\ pc' = "summarize"
            /\ UNCHANGED <<status, caught, origin>>
    /\ UNCHANGED <<detectVars, finalSources, entityType, charts, visualization, maxResults,
                   toolName, args, embedInput, filter, vectorQueries, toolError,
                   session, user, sessionRecord, requests, transcript, toolCalls, llmCalls, retryVars>>

\* lines 876-952 and 1133-1207: the matches arrive and POST collects them
QueryAnswers ==
    /\ pc = "awaiting query"
    /\ \/ \E e \in VectorErrors :
            /\ Fail(e, "vector query")
            /\ UNCHANGED <<hits, sources, callIndex, toolMessages>>
       \/ \E rs \in QueryResponses(vectorQueries[Len(vectorQueries)]) :
            /\ hits' = hits \o rs
            /\ sources' = sources \o [i \in 1..Len(rs) |-> Normalize(rs[i])]
            /\ toolMessages' =
                  Append(toolMessages,
                         [role |-> "tool",
                          tool_call_id |-> toolCalls[callIndex].id,
                          content |-> [results |-> rs, count |-> Len(rs),
                                       filters_applied |-> filter]])
            /\ callIndex' = callIndex + 1
            /\ pc' = IF callIndex < Len(toolCalls) THEN "tool call" ELSE "summarize"
            /\ UNCHANGED <<status, caught, origin>>
    /\ UNCHANGED <<detectVars, finalSources, entityType, charts, visualization, maxResults,
                   toolName, args, embedInput, filter, vectorQueries, toolError,
                   session, user, sessionRecord, requests, transcript, toolCalls, llmCalls, retryVars>>

\* lines 1209-1268: the entity aggregation, then the summarization request
\* is sent
Summarize ==
    /\ pc = "summarize"
    /\ detectedEntityType' = DetectedEntityOf[query]
    /\ finalSources' = FinalSources(sources, DetectedEntityOf[query])
    /\ entityType' = ActualEntityType(sources, DetectedEntityOf[query])
    /\ llmCalls' = llmCalls + 1
    /\ transcript' = <<[role |-> "user", content |-> query],
                       [role |-> "assistant", tool_calls |-> toolCalls]>> \o toolMessages
    /\ pc' = "awaiting summary"
    /\ UNCHANGED <<query, regional, hits, sources, charts, visualization, toolVars,
                   session, user, sessionRecord, requests, toolMessages, toolCalls, callIndex, caught, origin,
                   retryVars>>

\* lines 1270-1289: the summary arrives, the visualization is generated and
\* the response is returned
SummaryAnswers ==
    /\ pc = "awaiting summary"
    /\ \/ \E e \in ChatErrors :
            /\ Fail(e, "summary")
            /\ UNCHANGED <<regional, charts, visualization>>
       \/ LET cs == IF Len(finalSources) = 0 THEN <<>>
                    ELSE CollectChartsFor(finalSources, entityType, RegionalOf[query])
          IN /\ regional' = RegionalOf[query]
             /\ charts' = cs
             /\ visualization' = VisualizationOf(finalSources, cs)
             /\ Respond(200)
    /\ UNCHANGED <<query, detectedEntityType, hits, sources, finalSources, entityType,
                   maxResults, toolName, args, embedInput, filter, vectorQueries, toolError,
                   session, user, sessionRecord, requests, toolMessages, transcript, toolCalls, callIndex, llmCalls, retryVars>>

(***************************************************************************)
(* SpecPost: one request.  The session, the user, the query and the        *)
(* router's tool calls are drawn from the sets below.                      *)
(***************************************************************************)
PostInit ==
    /\ pc = "received"
    /\ query \in PostQueries
    /\ detectedEntityType = Null
    /\ regional = FALSE
    /\ VizIdle /\ ToolIdle /\ RetryIdle
    /\ session \in Sessions
    /\ user \in IF session = "valid" THEN Users ELSE {<<>>}
    /\ toolCalls = <<>>
    /\ callIndex = 0
    /\ llmCalls = 0
    /\ caught = UndefinedV
    /\ origin = ""
    /\ toolMessages = <<>>
    /\ transcript = <<>>
    /\ sessionRecord = "none"
    /\ requests = <<>>

PostNext ==
    \/ NotAuthenticated \/ InvalidSession \/ MissingQuery \/ NoOpCo
    \/ CallRouter \/ RouterAnswers
    \/ StartToolCall \/ EmbeddingAnswers \/ QueryAnswers
    \/ Summarize \/ SummaryAnswers

SpecPost == PostInit /\ [][PostNext]_vars

\* no request has gone to the LLM, the embedding API or the vector store
NoExternalCall == llmCalls = 0 /\ embedInput = <<>> /\ vectorQueries = <<>>

\* the status the guards of the request answer with, 0 when they all pass
GuardStatus ==
    IF session # "valid" THEN 401
    ELSE IF query = "" THEN 400
    ELSE IF user.role # "ADMIN" /\ user.opCoCode = Null THEN 403
    ELSE 0

ValidToolCalls ==
    {i \in 1..Len(toolCalls) :
        FilterError(BuildFilter(toolCalls[i].name, toolCalls[i].args)) = NoError}

(***************************************************************************)
(* C15: when the filter validation fails for one tool call of a request    *)
(* that has other tool calls, only that tool call is aborted: the vector   *)
(* query of every other tool call is issued and the request is answered    *)
(* with their results (status 200).                                        *)
(***************************************************************************)
C15_ValidationAbortsOnlyItsToolCall ==
    (pc = "responded" /\ origin = "filter validation" /\ ValidToolCalls # {}) =>
        /\ Len(vectorQueries) = Cardinality(ValidToolCalls)
        /\ status = 200

(***************************************************************************)
(* C16: an operation that fails with a Timeout error is not retried:       *)
(* retryOperation makes exactly one attempt, waits for no backoff and      *)
(* throws that error, which POST's catch block answers with status 504.    *)
(***************************************************************************)
C16_TimeoutNotRetried ==
    (Len(thrown) >= 1 /\ thrown[1] \in TimeoutErrors) =>
        /\ pc = "done"
        /\ calls = 1
        /\ delays = <<>>
        /\ outcome = [thrown |-> thrown[1]]
        /\ ClassifyError(outcome.thrown) = 504

\* the vector queries sent for the tool call the loop is at: the calls
\* before it were answered after one query each
QueryAttempts == Len(vectorQueries) - (callIndex - 1)

(***************************************************************************)
(* C17: a request is answered with the rate-limit error of a vector query  *)
(* only after that query was attempted DefaultMaxRetries + 1 times (the    *)
(* first attempt and every retry), and the answer is then 429.             *)
(***************************************************************************)
C17_RateLimitedQueryRetried ==
    (pc = "responded" /\ origin = "vector query" /\ caught \in RateLimitErrors) =>
        /\ QueryAttempts = DefaultMaxRetries + 1
        /\ status = 429

(***************************************************************************)
(* C18: a request that ends with a network failure of an upstream call (a  *)
(* connection reset, a failed DNS lookup, a generic network fault) is      *)
(* answered with status 503.                                               *)
(***************************************************************************)
C18_NetworkFailureAnswered503 ==
    (pc = "responded" /\ caught \in NetworkErrors) => status = 503

(***************************************************************************)
(* SpecPostLive: the request with the scheduling of the handler.  The      *)
(* steps the handler takes by itself (the guards, sending a request,       *)
(* going round the loop) are never postponed for ever.  The answer of an   *)
(* external service is awaited with no timer (the fetch calls of lines     *)
(* 1003-1010 and 730-740 carry no signal, index.query of line 868 no       *)
(* deadline), so nothing obliges an awaiting step to happen.               *)
(***************************************************************************)
HandlerSteps ==
    \/ NotAuthenticated \/ InvalidSession \/ MissingQuery \/ NoOpCo
    \/ CallRouter \/ StartToolCall \/ Summarize

SpecPostLive == PostInit /\ [][PostNext]_vars /\ WF_vars(HandlerSteps)

(***************************************************************************)
(* C19: every request is eventually answered, also when an external        *)
(* service never answers (the call then ends with a Timeout error).        *)
(***************************************************************************)
C19_EveryRequestAnswered == <>(pc = "responded")

\* the filter of a vector query constrains opco_id to the OpCo
ConstrainedTo(q, opCo) ==
    /\ q.filter # UndefinedV
    /\ Get(q.filter.obj, "opco_id") = Eq(Str(opCo))

(***************************************************************************)
(* C20: for a user who is not an admin every vector query is constrained   *)
(* to the user's own OpCo, and every source collected for the response     *)
(* belongs to that OpCo.                                                   *)
(***************************************************************************)
C20_OpCoIsolation ==
    (session = "valid" /\ user.role # "ADMIN") =>
        /\ \A k \in 1..Len(vectorQueries) : ConstrainedTo(vectorQueries[k], user.opCoCode)
        /\ \A i \in 1..Len(sources) : sources[i].metadata.opco_id = user.opCoCode

(***************************************************************************)
(* SpecValidate: validateMetadataFilter (auth.ts, lines 295-324) on the    *)
(* filters a caller can assemble from the keys and values below.           *)
(***************************************************************************)
MaxFilterKeys == 2

FilterKeys == {"city", "amount", "$and", "$or", "$in", "$nor"}

\* a string, a bound, a null, an object holding a null one and two levels
\* down, and lists of clauses with and without a null
FilterValues ==
    { Str("Phoenix"),
      NullV,
      Obj(Put(EmptyObject, "$gte", Num(100))),
      Obj(Put(EmptyObject, "$eq", NullV)),
      Obj(Put(EmptyObject, "address", Obj(Put(EmptyObject, "zip", NullV)))),
      Arr(<<Obj(Put(EmptyObject, "state", Eq(Str("AZ"))))>>),
      Arr(<<Obj(Put(EmptyObject, "state", Eq(Str("AZ")))),
            Obj(Put(EmptyObject, "city", NullV))>>) }

ValidateInit ==
    /\ pc = "assembling"
    /\ DetectIdle /\ VizIdle /\ ToolIdle /\ PostIdle /\ RetryIdle

\* the caller sets one more key of the filter
FilterGrows ==
    /\ pc = "assembling"
    /\ Cardinality(DOMAIN filter) < MaxFilterKeys
    /\ \E key \in FilterKeys \ DOMAIN filter : \E value \in FilterValues :
        filter' = Put(filter, key, value)
    /\ UNCHANGED <<pc, maxResults, toolName, args, embedInput, vectorQueries, toolError,
                   status, detectVars, vizVars, retryVars, postVars>>

\* validateMetadataFilter(filter): toolError is the message of the Error
\* thrown, NoError when the call returns
Validate ==
    /\ pc = "assembling"
    /\ toolError' = validateMetadataFilter(filter)
    /\ pc' = "validated"
    /\ UNCHANGED <<maxResults, toolName, args, embedInput, filter, vectorQueries,
                   status, detectVars, vizVars, retryVars, postVars>>

ValidateNext == FilterGrows \/ Validate

SpecValidate == ValidateInit /\ [][ValidateNext]_vars

\* a field of the object is bound to null, in the object, in an object
\* nested in it or in a clause listed under $and / $or
RECURSIVE NullAtAnyDepth(_)
NullAtAnyDepth(obj) ==
    \E key \in DOMAIN obj :
        \/ obj[key] = NullV
        \/ IsObj(obj[key]) /\ NullAtAnyDepth(obj[key].obj)
        \/ /\ key \in {"$and", "$or"}
           /\ IsArr(obj[key])
           /\ \E i \in 1..Len(obj[key].arr) :
                 IsObj(obj[key].arr[i]) /\ NullAtAnyDepth(obj[key].arr[i].obj)

\* a top-level key that starts with '$' and is neither $and nor $or
BadTopLevelKey(obj) == \E key \in DOMAIN obj : Head(key) = "$" /\ key \notin {"$and", "$or"}

(***************************************************************************)
(* C21: validateMetadataFilter throws exactly for the filters that have a  *)
(* top-level key starting with '$' other than $and / $or or that bind a    *)
(* field to null at any depth (nested objects and the clauses under $and   *)
(* / $or); it accepts every other filter.                                  *)
(***************************************************************************)
C21_ValidationRejectsExactlyBadFilters ==
    pc = "validated" =>
        (toolError # NoError <=> (BadTopLevelKey(filter) \/ NullAtAnyDepth(filter)))

\* the query has vendor-entity intent and a collected result is financial
VendorIntentOnInvoices ==
    /\ detectedEntityType = "vendor"
    /\ \E i \in 1..Len(sources) : sources[i].metadata.domain = "financial"

HasTitle(cs, title) == \E i \in 1..Len(cs) : cs[i].title = title

C23_SourcesOrderedByScore ==
    (pc = "responded" /\ status = 200 /\ finalSources = sources) =>
        \A i \in 1..(Len(finalSources) - 1) :
            finalSources[i].score >= finalSources[i + 1].score

(***************************************************************************)
(* SpecNormalize: one match of the vector store is formatted by            *)
(* executeToolCall (route.ts, lines 887-945) and normalised by POST (lines *)
(* 1134-1196).                                                             *)
(***************************************************************************)
\* the metadata of a match: the fields of a raw result and fields the
\* records of the index carry that lines 890-944 do not list
EmptyMatch ==
    EmptyHit @@ [condition |-> Undefined, equipment_type |-> Undefined,
                 customer_type |-> Undefined, city |-> Undefined,
                 role_required |-> Undefined]

\* lines 887-945: the result holds the listed fields of the metadata
FormatResult(match) == [field \in DOMAIN EmptyHit |-> match[field]]

\* line 1136-1142: the order in which the amount fields are tried
AmountFields ==
    <<"amount", "total_value", "deal_value", "budget", "total_revenue", "unit_cost">>

\* a match whose amount field i is absent ("a"), zero ("z") or 10 * i ("v")
AmountMatch(c) ==
    LET n(i) == IF c[i] = "v" THEN 10 * i ELSE 0 IN
    [EmptyMatch EXCEPT
        !.id = "amounts-" \o c[1] \o c[2] \o c[3] \o c[4] \o c[5] \o c[6],
        !.score = 5,
        !.defined = {AmountFields[i] : i \in {j \in 1..6 : c[j] # "a"}},
        !.amount = n(1), !.total_value = n(2), !.deal_value = n(3),
        !.budget = n(4), !.total_revenue = n(5), !.unit_cost = n(6)]

OptionalFields ==
    <<"service_type", "stage", "manufacturer", "condition", "equipment_type",
      "customer_type", "city", "role_required">>

FieldSample(field) ==
    CASE field = "service_type" -> "retrofit"
      [] field = "stage" -> "closed_won"
      [] field = "manufacturer" -> "Trane"
      [] field = "condition" -> "poor"
      [] field = "equipment_type" -> "chiller"
      [] field = "customer_type" -> "hospital"
      [] field = "city" -> "Phoenix"
      [] field = "role_required" -> "manager"

\* a match that has the optional fields of the set
FieldMatch(present) ==
    LET code[i \in 0..Len(OptionalFields)] ==
            IF i = 0 THEN "fields-"
            ELSE code[i - 1] \o (IF OptionalFields[i] \in present THEN "1" ELSE "0")
    IN [field \in DOMAIN EmptyMatch |->
          IF field = "id" THEN code[Len(OptionalFields)]
          ELSE IF field \in present THEN FieldSample(field)
          ELSE EmptyMatch[field]]

SampleMatches ==
    {AmountMatch(c) : c \in [1..6 -> {"a", "z", "v"}]}
        \cup {FieldMatch(present) :
                present \in SUBSET {OptionalFields[i] : i \in 1..Len(OptionalFields)}}

NormalizeInit ==
    /\ pc = "matched"
    /\ DetectIdle /\ VizIdle /\ ToolIdle /\ PostIdle /\ RetryIdle

\* lines 887-945
Format ==
    /\ pc = "matched"
    /\ \E match \in SampleMatches : hits' = <<FormatResult(match)>>
    /\ pc' = "formatted"
    /\ UNCHANGED <<sources, finalSources, entityType, charts, visualization,
                   detectVars, toolVars, retryVars, postVars>>

\* lines 1134-1199
NormalizeHit ==
    /\ pc = "formatted"
    /\ sources' = <<Normalize(hits[1])>>
    /\ pc' = "normalized"
    /\ UNCHANGED <<hits, finalSources, entityType, charts, visualization,
                   detectVars, toolVars, retryVars, postVars>>

NormalizeNext == Format \/ NormalizeHit

SpecNormalize == NormalizeInit /\ [][NormalizeNext]_vars

\* the match a raw result was formatted from
MatchOf(r) == CHOOSE match \in SampleMatches : match.id = r.id

\* the positions in AmountFields of the amount fields the raw result has
PresentAmounts(r) == {i \in 1..Len(AmountFields) : AmountFields[i] \in r.defined}

(***************************************************************************)
(* C24: the normalised amount of a raw hit is the value of the first of    *)
(* amount, total_value, deal_value, budget, total_revenue, unit_cost that  *)
(* the hit has, and 0 when it has none of them.                            *)
(***************************************************************************)
C24_AmountIsFirstPresentField ==
    pc = "normalized" =>
        LET r == hits[1] IN
        sources[1].metadata.amount =
            IF PresentAmounts(r) = {} THEN 0
            ELSE r[AmountFields[CHOOSE i \in PresentAmounts(r) :
                                   \A j \in PresentAmounts(r) : i <= j]]

(***************************************************************************)
(* C25: every optional field the metadata of a match has is in the         *)
(* metadata of the SearchResult built from it, with the same value.        *)
(***************************************************************************)
C25_OptionalFieldsCopied ==
    pc = "normalized" =>
        LET match == MatchOf(hits[1])
            metadata == sources[1].metadata
        IN \A i \in 1..Len(OptionalFields) :
              LET field == OptionalFields[i] IN
              match[field] # Undefined =>
                  field \in DOMAIN metadata /\ metadata[field] = match[field]

\* the results of the tool messages, in order
RECURSIVE ResultsOf(_)
ResultsOf(messages) ==
    IF messages = <<>> THEN <<>>
    ELSE messages[1].content.results \o ResultsOf(Tail(messages))

(***************************************************************************)
(* C26: the summarization request is sent only after the tool-selection    *)
(* call has returned tool calls and every one of them has completed; its   *)
(* transcript is the user query, the tool-selection message and one tool   *)
(* result per tool call, in tool-call order, each with the id of its call. *)
(* The entity aggregation runs on the results of all tool calls.  When     *)
(* the router returns no tool call the request is answered with empty      *)
(* sources and no embedding, vector or summarization request is sent.      *)
(***************************************************************************)
C26_SummaryAfterAllToolCalls ==
    /\ llmCalls <= 2
    /\ (llmCalls = 2 \/ pc = "awaiting summary") =>
          /\ toolCalls # <<>>
          /\ Len(embedInput) = Len(toolCalls)
          /\ Len(vectorQueries) = Len(toolCalls)
          /\ Len(toolMessages) = Len(toolCalls)
          /\ \A i \in 1..Len(toolCalls) :
                /\ toolMessages[i].role = "tool"
                /\ toolMessages[i].tool_call_id = toolCalls[i].id
          /\ transcript = <<[role |-> "user", content |-> query],
                            [role |-> "assistant", tool_calls |-> toolCalls]>>
                              \o toolMessages
          /\ hits = ResultsOf(toolMessages)
          /\ finalSources = FinalSources(sources, detectedEntityType)
    /\ finalSources # <<>> => llmCalls = 2
    /\ (pc = "responded" /\ status = 200 /\ toolCalls = <<>>) =>
          /\ llmCalls = 1
          /\ embedInput = <<>>
          /\ vectorQueries = <<>>
          /\ finalSources = <<>>

C26_Witness ==
    /\ pc = "responded"
    /\ status = 200
    /\ llmCalls = 2
    /\ Len(toolCalls) = 2
    /\ Len(transcript) = 4
    /\ transcript[3].tool_call_id = "call_1"
    /\ transcript[4].tool_call_id = "call_2"
    /\ transcript[3].content.count = 2
    /\ transcript[4].content.count = 1

\* what generateVisualization returns for the same sources and query when
\* no entity intent is passed
VisualizationWithoutIntent ==
    VisualizationOf(finalSources,
                    IF Len(finalSources) = 0 THEN <<>>
                    ELSE CollectChartsFor(finalSources, Null, regional))

(***************************************************************************)
(* C27: for a result set flagged with entity intent customer or equipment  *)
(* the visualization is not the one generateVisualization produces for the *)
(* same sources and query with no entity intent.                           *)
(***************************************************************************)
C27_EntityIntentChangesVisualization ==
    (/\ pc = "generated"
     /\ entityType \in {"customer", "equipment"}
     /\ visualization # NullVisualization) =>
        visualization # VisualizationWithoutIntent

RECURSIVE SumInvoiceCounts(_)
SumInvoiceCounts(cards) ==
    IF cards = <<>> THEN 0
    ELSE cards[1].metadata.invoice_count + SumInvoiceCounts(Tail(cards))

(***************************************************************************)
(* C28: when the vendor aggregation runs, the invoice counts of the cards  *)
(* add up to the number of sources collected from the tool calls (the      *)
(* sources outside the financial domain included), and on every card       *)
(* paid_count + outstanding_count = invoice_count.                         *)
(***************************************************************************)
C28_EverySourceCountedOnce ==
    (pc = "generated" /\ entityType = "vendor") =>
        /\ SumInvoiceCounts(finalSources) = Len(sources)
        /\ \A k \in 1..Len(finalSources) :
              /\ finalSources[k].metadata.invoice_count >= 1
              /\ finalSources[k].metadata.paid_count
                    + finalSources[k].metadata.outstanding_count
                 = finalSources[k].metadata.invoice_count

C28_Witness ==
    /\ pc = "generated"
    /\ entityType = "vendor"
    /\ Len(sources) = 3
    /\ \E i \in 1..3 : sources[i].id = "lead-1"
    /\ \E i \in 1..3 : sources[i].id = "inv-1"
    /\ \E i \in 1..3 : sources[i].id = "inv-3"
    /\ Len(finalSources) = 2
    /\ finalSources[1].metadata.vendor_name = "Carrier"
    /\ finalSources[1].metadata.invoice_count = 2
    /\ finalSources[2].metadata.vendor_name = "Unknown Vendor"
    /\ finalSources[2].metadata.outstanding_count = 1

(***************************************************************************)
(* SpecAggregate: aggregateVendorEntities (route.ts, lines 436-512) on the *)
(* invoices a vendor query collected, whose vendor names are as the        *)
(* records of the index spell them.                                        *)
(***************************************************************************)
MaxInvoices == 3

\* the same vendors in the spellings of different records
VendorSpellings == {"Carrier", "carrier", "Air Pro", "Air  Pro", "air-pro", "Trane"}

InvoiceOf(vendorName, n) ==
    [EmptyHit EXCEPT !.id = "inv-" \o ToString(n), !.score = 9 - n,
        !.defined = {"amount"}, !.opco_id = "OPCO-A",
        !.record_type = "invoice", !.domain = "financial",
        !.vendor = vendorName, !.payment_status = "paid", !.amount = 100]

AggregateInit ==
    /\ pc = "collecting invoices"
    /\ query = "top vendors by region"
    /\ detectedEntityType = DetectedEntityOf[query]
    /\ regional = FALSE
    /\ VizIdle /\ ToolIdle /\ PostIdle /\ RetryIdle

\* lines 1133-1199: one more invoice is collected
CollectInvoice ==
    /\ pc = "collecting invoices"
    /\ Len(sources) < MaxInvoices
    /\ \E vendorName \in VendorSpellings :
        LET r == InvoiceOf(vendorName, Len(sources) + 1) IN
        /\ hits' = Append(hits, r)
        /\ sources' = Append(sources, Normalize(r))
    /\ UNCHANGED <<pc, finalSources, entityType, charts, visualization,
                   detectVars, toolVars, retryVars, postVars>>

\* lines 1209-1243
AggregateVendors ==
    /\ pc = "collecting invoices"
    /\ finalSources' = FinalSources(sources, detectedEntityType)
    /\ entityType' = ActualEntityType(sources, detectedEntityType)
    /\ pc' = "aggregated"
    /\ UNCHANGED <<hits, sources, charts, visualization,
                   detectVars, toolVars, retryVars, postVars>>

AggregateNext == CollectInvoice \/ AggregateVendors

SpecAggregate == AggregateInit /\ [][AggregateNext]_vars

(***************************************************************************)
(* C29: the cards aggregateVendorEntities returns have pairwise distinct   *)
(* ids, also when the names of two vendor groups differ only in letter     *)
(* case or in whitespace versus hyphens.                                   *)
(***************************************************************************)
C29_CardIdsDistinct ==
    (pc = "aggregated" /\ entityType = "vendor") =>
        \A i, j \in 1..Len(finalSources) :
            i # j => finalSources[i].id # finalSources[j].id

(***************************************************************************)
(* SpecSession: concurrent requests that carry the token of one expired    *)
(* session.  Each request runs POST up to its answer (route.ts, lines      *)
(* 959-978 and 1290-1395); the steps of validateSession (auth.ts, lines    *)
(* 77-109) are its two awaits on the session table.                        *)
(***************************************************************************)
MaxRequests == 4

Requests == 1..MaxRequests

\* prisma.session.delete on a record that is gone rejects (deleteSession,
\* lines 114-119, catches it; validateSession does not)
RecordNotFoundErrors ==
    { Error(0, "PrismaClientKnownRequestError", "Record to delete does not exist."),
      Error(0, "PrismaClientKnownRequestError",
            "An operation failed because it depends on one or more records that were required but not found.") }

Request(position, st, error) == [pc |-> position, status |-> st, error |-> error]

SessionInit ==
    /\ pc = "serving"
    /\ DetectIdle /\ VizIdle /\ ToolIdle /\ RetryIdle
    /\ session = "valid" /\ user = <<>> /\ toolCalls = <<>> /\ callIndex = 0
    /\ llmCalls = 0 /\ caught = UndefinedV /\ origin = ""
    /\ toolMessages = <<>> /\ transcript = <<>>
    /\ sessionRecord = "expired"
    /\ requests = [r \in Requests |-> Request("received", 0, UndefinedV)]

\* auth.ts 78-88 and route.ts 971-978: findUnique answers; a request that
\* finds no record gets null from validateSession and is answered 401, a
\* request that finds the expired record goes on to delete it
FindSession(r) ==
    /\ requests[r].pc = "received"
    /\ requests' = [requests EXCEPT ![r] =
                      IF sessionRecord = "expired"
                      THEN Request("found expired", 0, UndefinedV)
                      ELSE Request("answered", 401, UndefinedV)]
    /\ UNCHANGED <<pc, detectVars, vizVars, toolVars, retryVars, session, user, toolCalls,
                   callIndex, llmCalls, caught, origin, toolMessages, transcript,
                   sessionRecord>>

\* auth.ts 85-87 and route.ts 973-978: the delete removes the record and the
\* request is answered 401
DeleteExpired(r) ==
    /\ requests[r].pc = "found expired"
    /\ sessionRecord = "expired"
    /\ sessionRecord' = "deleted"
    /\ requests' = [requests EXCEPT ![r] = Request("answered", 401, UndefinedV)]
    /\ UNCHANGED <<pc, detectVars, vizVars, toolVars, retryVars, session, user, toolCalls,
                   callIndex, llmCalls, caught, origin, toolMessages, transcript>>

\* auth.ts 85 and route.ts 1290-1395: the record is gone, the delete
\* rejects, validateSession lets the error through to POST's catch block
DeleteRejects(r) ==
    /\ requests[r].pc = "found expired"
    /\ sessionRecord = "deleted"
    /\ \E e \in RecordNotFoundErrors :
          requests' = [requests EXCEPT ![r] = Request("answered", ClassifyError(e), e)]
    /\ UNCHANGED <<pc, detectVars, vizVars, toolVars, retryVars, session, user, toolCalls,
                   callIndex, llmCalls, caught, origin, toolMessages, transcript,
                   sessionRecord>>

SessionNext ==
    \E r \in Requests : FindSession(r) \/ DeleteExpired(r) \/ DeleteRejects(r)

SpecSession == SessionInit /\ [][SessionNext]_vars

(***************************************************************************)
(* C30: in every interleaving of the requests that carry the expired       *)
(* token each request is answered 401, and once all are answered the       *)
(* session record is gone.                                                 *)
(***************************************************************************)
C30_ExpiredSessionAlways401 ==
    /\ \A r \in Requests : requests[r].pc = "answered" => requests[r].status = 401
    /\ (\A r \in Requests : requests[r].pc = "answered") => sessionRecord = "deleted"

=============================================================================
